---- MODULE Spec2Model ----
(***************************************************************************)
(* control-mate-utils: the local control panel of main.go.                 *)
(*                                                                         *)
(* A Go string is modelled as a sequence of one-character strings, so that *)
(* strings.ToUpper, strings.Contains, strings.Split and strings.TrimSpace  *)
(* are computed character by character, as the library computes them.      *)
(*                                                                         *)
(* The specifications share the variables:                                 *)
(*   SpecNorm    normalizeSecurityType applied to raw SECURITY strings     *)
(*   SpecWifi    the nmcli parsers applied to nmcli output text            *)
(*   SpecPs      the ps parsers applied to ps output text                  *)
(*   SpecParsers the parsers of one tool, nmcli or ps, applied to its text *)
(*   SpecIface   getNetworkInterfaces applied to the machine's interfaces  *)
(*   SpecFront   getSignalStrength and getInterfaceType of static/app.js   *)
(*   Spec        the HTTP handlers, their external processes and responses *)
(*   SpecStatus  the status, health and current-WiFi handlers with a clock *)
(*   SpecScanUi  scanWiFiNetworks of static/app.js and its loading spinner *)
(*   SpecInstall the install and update paths of install_to_linux.sh       *)
(***************************************************************************)
EXTENDS Naturals, Integers, Sequences, FiniteSets, Bags, TLC

VARIABLES
    \* SpecNorm
    normPc,         \* "build" | "normalized" | "renormalized"
    raw,            \* the raw SECURITY string handed to normalizeSecurityType
    nparts,         \* how many fragments raw was built from
    normalized,     \* normalizeSecurityType(raw)
    renormalized,   \* normalizeSecurityType(normalized)
    \* SpecWifi
    wifiPc,         \* "build" | "parsed"
    text,           \* the text nmcli wrote to stdout
    nfrags,         \* how many fragments text was built from
    cmdOk,          \* whether the nmcli call of getCurrentWiFi succeeded
    networks,       \* parseNmcliOutput(text)
    currentWiFi,    \* what getCurrentWiFi returns
    \* Spec
    started,        \* NewApp has run
    nmcliAvailable, \* App.nmcliAvailable
    startTime,      \* App.startTime, in seconds
    now,            \* the clock, in seconds
    goos,           \* runtime.GOOS
    reqs,           \* the bag of requests being served
    \* SpecPs
    psPc,           \* "build" | "parsed"
    psRows,         \* the rows ps printed, as columns and command words
    psText,         \* the text ps wrote to stdout
    psAux,          \* parsePsAuxOutput(psText)
    psEf,           \* parsePsEfOutput(psText)
    \* SpecIface
    ifPc,           \* "build" | "done"
    ifaces,         \* what net.Interfaces() returns
    ifResult,       \* what getNetworkInterfaces returns
    \* SpecFront
    frontPc,        \* "input" | "done"
    signal,         \* the argument of getSignalStrength
    strength,       \* getSignalStrength(signal)
    ifName,         \* the argument of getInterfaceType
    ifType,         \* getInterfaceType(ifName)
    \* SpecScanUi
    loadingHidden,  \* whether #wifiLoading carries the class "hidden"
    wifiList,       \* what #wifiList shows
    pageCurrentWiFi,\* this.currentWiFi of the page's NetworkManager
    scanCalls,      \* the calls of scanWiFiNetworks, each with its position
    \* SpecInstall
    shPc,           \* the position of install_to_linux.sh
    fs,             \* the files the script reads and writes
    shVar,          \* the script's variables
    service,        \* the state of the systemd user service
    errorMsg,       \* the last line the script printed with error()
    exitStatus      \* the script's exit status, -1 while it runs

normVars == <<normPc, raw, nparts, normalized, renormalized>>
wifiVars == <<wifiPc, text, nfrags, cmdOk, networks, currentWiFi>>
httpVars == <<started, nmcliAvailable, startTime, now, goos, reqs>>
psVars == <<psPc, psRows, psText, psAux, psEf>>
ifaceVars == <<ifPc, ifaces, ifResult>>
frontVars == <<frontPc, signal, strength, ifName, ifType>>
pageVars == <<loadingHidden, wifiList, pageCurrentWiFi, scanCalls>>
shVars == <<shPc, fs, shVar, service, errorMsg, exitStatus>>
pureVars == <<psVars, ifaceVars, frontVars, pageVars, shVars>>
vars == <<normVars, wifiVars, httpVars, pureVars>>

(***************************************************************************)
(* Bounds                                                                  *)
(***************************************************************************)
MaxParts == 3      \* fragments in a raw SECURITY string
MaxFrags == 3      \* chunks in an nmcli output text
MaxInFlight == 2   \* requests served at the same time
MaxRows == 3       \* rows in a ps output text
MaxIfaces == 3     \* interfaces of the machine
MaxSignal == 100   \* the largest number in a signal

(***************************************************************************)
(* Go strings                                                              *)
(***************************************************************************)
Lower == <<"a","b","c","d","e","f","g","h","i","j","k","l","m",
           "n","o","p","q","r","s","t","u","v","w","x","y","z">>
Upper == <<"A","B","C","D","E","F","G","H","I","J","K","L","M",
           "N","O","P","Q","R","S","T","U","V","W","X","Y","Z">>

\* unicode.ToUpper on the characters of the model's alphabet
ToUpperChar(c) ==
    IF \E i \in 1..Len(Lower) : Lower[i] = c
    THEN Upper[CHOOSE i \in 1..Len(Lower) : Lower[i] = c]
    ELSE c

\* strings.ToUpper
ToUpper(s) == [i \in 1..Len(s) |-> ToUpperChar(s[i])]

\* strings.Contains
Contains(s, sub) ==
    \E i \in 0..(Len(s) - Len(sub)) : SubSeq(s, i + 1, i + Len(sub)) = sub

\* the white space strings.TrimSpace removes
IsSpace(c) == c \in {" ", "\t", "\n", "\r"}

RECURSIVE TrimLeft(_)
TrimLeft(s) ==
    IF s # <<>> /\ IsSpace(Head(s)) THEN TrimLeft(Tail(s)) ELSE s

RECURSIVE TrimRight(_)
TrimRight(s) ==
    IF s # <<>> /\ IsSpace(s[Len(s)]) THEN TrimRight(SubSeq(s, 1, Len(s) - 1)) ELSE s

\* strings.TrimSpace
TrimSpace(s) == TrimRight(TrimLeft(s))

\* strings.Split(s, sep) for a one-character separator: always at least one part
RECURSIVE Split(_, _)
Split(s, sep) ==
    IF \E i \in 1..Len(s) : s[i] = sep
    THEN LET i == CHOOSE k \in 1..Len(s) :
                     s[k] = sep /\ \A j \in 1..(k - 1) : s[j] # sep
         IN  <<SubSeq(s, 1, i - 1)>> \o Split(SubSeq(s, i + 1, Len(s)), sep)
    ELSE <<s>>

(***************************************************************************)
(* Zero values                                                             *)
(***************************************************************************)
NoNetworks == [isNil |-> TRUE, items |-> <<>>]     \* var networks []WiFiNetwork
ZeroCurrentWiFi ==                                 \* var currentWiFi CurrentWiFi
    [SSID |-> <<>>, Signal |-> <<>>, Security |-> "", Connected |-> FALSE]
NoProcesses == [isNil |-> TRUE, items |-> <<>>]    \* var processes []Process
\* var result []NetworkInterface, and a nil error
NoInterfaces == [err |-> FALSE, isNil |-> TRUE, items |-> <<>>]
\* the JavaScript value undefined where a string is expected
Undefined == [defined |-> FALSE, s |-> <<>>]
\* none of the files of install_to_linux.sh exists: BINARY_PATH, its backup
\* ${BINARY_PATH}.bak-${INSTALLED_VERSION}, TMP_FILE, VERSION_FILE, SERVICE_FILE
NoFiles ==
    [binary |-> "absent", bak |-> "absent", tmp |-> "absent",
     version |-> "absent", serviceFile |-> "absent"]
\* the script's variables before they are assigned
NoShVars == [INSTALLED_VERSION |-> "", LATEST_VERSION |-> "", REPLY |-> ""]

(***************************************************************************)
(* normalizeSecurityType                                                   *)
(***************************************************************************)
TokWPA3 == <<"W","P","A","3">>
TokWPA2 == <<"W","P","A","2">>
TokWPA  == <<"W","P","A">>
TokWEP  == <<"W","E","P">>
Dashes  == <<"-","-">>

SecurityTypes == {"Open", "WEP", "WPA", "WPA2", "WPA3", "Unknown"}

\* a bug: the plain "WPA" test placed before the "WPA3" and "WPA2" tests
normalizeSecurityType_WpaFirst(security) ==
    LET s == ToUpper(security)
    IN  IF Contains(s, TokWPA) THEN "WPA"
        ELSE IF Contains(s, TokWPA3) THEN "WPA3"
        ELSE IF Contains(s, TokWPA2) THEN "WPA2"
        ELSE IF Contains(s, TokWEP) THEN "WEP"
        ELSE IF s = <<>> \/ s = Dashes THEN "Open"
        ELSE "Unknown"

normalizeSecurityType(security) ==
    LET s == ToUpper(security)
    IN  IF Contains(s, TokWPA3) THEN "WPA3"
        ELSE IF Contains(s, TokWPA2) THEN "WPA2"
        ELSE IF Contains(s, TokWPA) THEN "WPA"
        ELSE IF Contains(s, TokWEP) THEN "WEP"
        ELSE IF s = <<>> \/ s = Dashes THEN "Open"
        ELSE "Unknown"

\* the characters of the string literals normalizeSecurityType returns
Chars(lit) ==
    CASE lit = "Open"    -> <<"O","p","e","n">>
      [] lit = "WEP"     -> <<"W","E","P">>
      [] lit = "WPA"     -> <<"W","P","A">>
      [] lit = "WPA2"    -> <<"W","P","A","2">>
      [] lit = "WPA3"    -> <<"W","P","A","3">>
      [] lit = "Unknown" -> <<"U","n","k","n","o","w","n">>
      [] lit = ""        -> <<>>

(***************************************************************************)
(* SpecNorm: raw SECURITY strings, built from fragments of what nmcli      *)
(* prints in its SECURITY column and of the normalized names.              *)
(***************************************************************************)
SecFragments ==
    { TokWPA3, TokWPA2, TokWEP,
      <<"w","p","a","3">>, <<"W","p","a">>, <<"w","e","p">>,
      <<"W","P">>, <<"A">>, <<"2">>,
      <<" ">>, <<"-">>,
      <<"8","0","2",".","1","X">>,
      Chars("Open") }

\* a raw string is about to be normalized; the parsers and the server are off
NormInit ==
    /\ normPc = "build"
    /\ raw = <<>>
    /\ nparts = 0
    /\ normalized = ""
    /\ renormalized = ""
    /\ wifiPc = "off"
    /\ text = <<>>
    /\ nfrags = 0
    /\ cmdOk = TRUE
    /\ networks = NoNetworks
    /\ currentWiFi = ZeroCurrentWiFi
    /\ started = FALSE
    /\ nmcliAvailable = FALSE
    /\ startTime = 0
    /\ now = 0
    /\ goos = "linux"
    /\ reqs = EmptyBag
    /\ psPc = "off"
    /\ psRows = <<>>
    /\ psText = <<>>
    /\ psAux = NoProcesses
    /\ psEf = NoProcesses
    /\ ifPc = "off"
    /\ ifaces = <<>>
    /\ ifResult = NoInterfaces
    /\ frontPc = "off"
    /\ signal = Undefined
    /\ strength = 0
    /\ ifName = <<>>
    /\ ifType = ""
    /\ loadingHidden = TRUE
    /\ wifiList = ""
    /\ pageCurrentWiFi = "null"
    /\ scanCalls = <<>>
    /\ shPc = "off"
    /\ fs = NoFiles
    /\ shVar = NoShVars
    /\ service = "inactive"
    /\ errorMsg = ""
    /\ exitStatus = -1

\* the environment extends the raw string by one fragment
AppendSecurity ==
    /\ normPc = "build"
    /\ nparts < MaxParts
    /\ \E f \in SecFragments : raw' = raw \o f
    /\ nparts' = nparts + 1
    /\ UNCHANGED <<normPc, normalized, renormalized, wifiVars, httpVars, pureVars>>

\* normalizeSecurityType(raw)
Normalize ==
    /\ normPc = "build"
    /\ normalized' = normalizeSecurityType(raw)
    /\ normPc' = "normalized"
    /\ UNCHANGED <<raw, nparts, renormalized, wifiVars, httpVars, pureVars>>

\* normalizeSecurityType applied to its own result
NormalizeAgain ==
    /\ normPc = "normalized"
    /\ renormalized' = normalizeSecurityType(Chars(normalized))
    /\ normPc' = "renormalized"
    /\ UNCHANGED <<raw, nparts, normalized, wifiVars, httpVars, pureVars>>

NormNext == AppendSecurity \/ Normalize \/ NormalizeAgain

SpecNorm == NormInit /\ [][NormNext]_vars

(***************************************************************************)
(* C1, C2                                                                  *)
(***************************************************************************)
\* two characters equal up to letter case
EqFold(a, b) ==
    \/ a = b
    \/ \E i \in 1..Len(Lower) : {a, b} = {Lower[i], Upper[i]}

\* tok occurs in s case-insensitively
OccursFold(s, tok) ==
    \E i \in 1..(Len(s) - Len(tok) + 1) :
        \A j \in 1..Len(tok) : EqFold(s[i + j - 1], tok[j])

FirstToken(s) ==
    IF OccursFold(s, TokWPA3) THEN "WPA3"
    ELSE IF OccursFold(s, TokWPA2) THEN "WPA2"
    ELSE IF OccursFold(s, TokWPA) THEN "WPA"
    ELSE IF OccursFold(s, TokWEP) THEN "WEP"
    ELSE "none"

\* C1: normalizeSecurityType returns the first of WPA3, WPA2, WPA, WEP whose
\* token occurs in the raw string case-insensitively (so a string containing
\* both "WPA2" and "WPA3" gives WPA3); with no token, "" and "--" give Open
\* and every other string gives Unknown.
C1_NormalizePriority ==
    normPc \in {"normalized", "renormalized"} =>
        /\ FirstToken(raw) # "none" => normalized = FirstToken(raw)
        /\ FirstToken(raw) = "none" /\ raw \in {<<>>, Dashes} => normalized = "Open"
        /\ FirstToken(raw) = "none" /\ raw \notin {<<>>, Dashes} => normalized = "Unknown"
        /\ Contains(raw, TokWPA2) /\ Contains(raw, TokWPA3) => normalized = "WPA3"

\* a raw string holding "WPA2" before "WPA3" has been normalized
C1_Witness ==
    /\ normPc = "normalized"
    /\ Contains(raw, TokWPA2 \o <<" ">> \o TokWPA3)
    /\ normalized = "WPA3"

\* C2: normalizeSecurityType is idempotent: normalizing a normalized value
\* returns the same value.
C2_Idempotent ==
    normPc = "renormalized" => renormalized = normalized

(***************************************************************************)
(* The nmcli parsers                                                       *)
(***************************************************************************)
\* append(networks, n): the result is never a nil slice
AppendNetwork(nets, n) == [isNil |-> FALSE, items |-> Append(nets.items, n)]

\* the loop body without its test of the SSID
ScanLine_NoSsidFilter(nets, rawLine) ==
    LET line  == TrimSpace(rawLine)
        parts == Split(line, ":")
    IN  IF line = <<>> THEN nets
        ELSE IF Len(parts) >= 3
             THEN AppendNetwork(nets,
                      [SSID     |-> parts[1],
                       Signal   |-> parts[2] \o <<"%">>,
                       Security |-> normalizeSecurityType(parts[3])])
             ELSE nets

\* the body of the loop of parseNmcliOutput for one line
ScanLine(nets, rawLine) ==
    LET line  == TrimSpace(rawLine)
        parts == Split(line, ":")
    IN  IF line = <<>> THEN nets
        ELSE IF Len(parts) >= 3
             THEN IF parts[1] = <<>> \/ parts[1] = Dashes
                  THEN nets
                  ELSE AppendNetwork(nets,
                           [SSID     |-> parts[1],
                            Signal   |-> parts[2] \o <<"%">>,
                            Security |-> normalizeSecurityType(parts[3])])
             ELSE nets

RECURSIVE ScanLines(_, _)
ScanLines(nets, lines) ==
    IF lines = <<>> THEN nets
    ELSE ScanLines(ScanLine(nets, Head(lines)), Tail(lines))

parseNmcliOutput(output) == ScanLines(NoNetworks, Split(output, "\n"))

\* the test of parseNmcliCurrentOutput that ends its loop
IsActiveLine(rawLine) ==
    LET line  == TrimSpace(rawLine)
        parts == Split(line, ":")
    IN  /\ line # <<>>
        /\ Len(parts) >= 4
        /\ parts[1] = <<"y","e","s">>
        /\ parts[2] # <<>>
        /\ parts[2] # Dashes

CurrentFromLine(rawLine) ==
    LET parts == Split(TrimSpace(rawLine), ":")
    IN  [SSID      |-> parts[2],
         Signal    |-> parts[3] \o <<"%">>,
         Security  |-> normalizeSecurityType(parts[4]),
         Connected |-> TRUE]

\* the loop going on after an active line, so that the last one is returned
RECURSIVE CurrentLines_LastWins(_)
CurrentLines_LastWins(lines) ==
    IF lines = <<>> THEN ZeroCurrentWiFi
    ELSE IF IsActiveLine(lines[Len(lines)]) THEN CurrentFromLine(lines[Len(lines)])
    ELSE CurrentLines_LastWins(SubSeq(lines, 1, Len(lines) - 1))

RECURSIVE CurrentLines(_)
CurrentLines(lines) ==
    IF lines = <<>> THEN ZeroCurrentWiFi
    ELSE IF IsActiveLine(Head(lines)) THEN CurrentFromLine(Head(lines))
    ELSE CurrentLines(Tail(lines))

parseNmcliCurrentOutput(output) == CurrentLines(Split(output, "\n"))

\* getCurrentWiFi, given whether cmd.Output() returned an error
getCurrentWiFi(ok, output) ==
    IF ~ok THEN ZeroCurrentWiFi ELSE parseNmcliCurrentOutput(output)

(***************************************************************************)
(* SpecWifi: nmcli output texts, built line by line                        *)
(***************************************************************************)
RECURSIVE Join(_, _)
Join(fields, sep) ==
    IF fields = <<>> THEN <<>>
    ELSE IF Len(fields) = 1 THEN fields[1]
    ELSE fields[1] \o sep \o Join(Tail(fields), sep)

Colon == <<":">>
sMyNet == <<"M","y","N","e","t">>
sHome  == <<"H","o","m","e">>
sCafe  == <<"C","a","f","e">>
sYes   == <<"y","e","s">>
sNo    == <<"n","o">>

\* lines nmcli -t prints for SSID,SIGNAL,SECURITY and ACTIVE,SSID,SIGNAL,SECURITY,
\* with blank, short and placeholder lines among them; the second chunk is a
\* placeholder line and the blank line after it
WifiLines ==
    { Join(<<sMyNet, <<"6","7">>, TokWPA2>>, Colon),
      Join(<<Dashes, <<"8","0">>, <<>>>>, Colon) \o <<"\n">>,
      <<>>,
      Join(<<sHome, <<"4","5">>, <<>>>>, Colon),
      Join(<<sCafe, <<"8","0">>>>, Colon),
      <<" ", " ">>,
      Join(<<sYes, sMyNet, <<"6","7">>, TokWPA2 \o <<" ">> \o TokWPA3>>, Colon),
      Join(<<sNo, sHome, <<"4","5">>, <<"W","P","A","1">>>>, Colon),
      Join(<<sYes, Dashes, <<"0">>, <<>>>>, Colon),
      Join(<<sYes, sHome, <<"4","5">>, TokWPA2, <<"x">>>>, Colon),
      Join(<<sYes, sCafe, <<"8","0","%">>, <<>>>>, Colon) \o <<"\r">> }

\* nmcli is about to print; the normalizer and the server are off
WifiInit ==
    /\ normPc = "off"
    /\ raw = <<>>
    /\ nparts = 0
    /\ normalized = ""
    /\ renormalized = ""
    /\ wifiPc = "build"
    /\ text = <<>>
    /\ nfrags = 0
    /\ cmdOk = TRUE
    /\ networks = NoNetworks
    /\ currentWiFi = ZeroCurrentWiFi
    /\ started = FALSE
    /\ nmcliAvailable = FALSE
    /\ startTime = 0
    /\ now = 0
    /\ goos = "linux"
    /\ reqs = EmptyBag
    /\ psPc = "off"
    /\ psRows = <<>>
    /\ psText = <<>>
    /\ psAux = NoProcesses
    /\ psEf = NoProcesses
    /\ ifPc = "off"
    /\ ifaces = <<>>
    /\ ifResult = NoInterfaces
    /\ frontPc = "off"
    /\ signal = Undefined
    /\ strength = 0
    /\ ifName = <<>>
    /\ ifType = ""
    /\ loadingHidden = TRUE
    /\ wifiList = ""
    /\ pageCurrentWiFi = "null"
    /\ scanCalls = <<>>
    /\ shPc = "off"
    /\ fs = NoFiles
    /\ shVar = NoShVars
    /\ service = "inactive"
    /\ errorMsg = ""
    /\ exitStatus = -1

\* nmcli prints one more chunk of lines
AppendLine ==
    /\ wifiPc = "build"
    /\ nfrags < MaxFrags
    /\ \E l \in WifiLines :
           text' = IF nfrags = 0 THEN l ELSE text \o <<"\n">> \o l
    /\ nfrags' = nfrags + 1
    /\ UNCHANGED <<wifiPc, cmdOk, networks, currentWiFi, normVars, httpVars, pureVars>>

\* scanWiFiNetworks parses the list; getCurrentWiFi runs nmcli (which succeeds
\* or fails) and parses what it printed
ParseWifi ==
    /\ wifiPc = "build"
    /\ \E ok \in BOOLEAN :
           /\ cmdOk' = ok
           /\ currentWiFi' = getCurrentWiFi(ok, text)
    /\ networks' = parseNmcliOutput(text)
    /\ wifiPc' = "parsed"
    /\ UNCHANGED <<text, nfrags, normVars, httpVars, pureVars>>

WifiNext == AppendLine \/ ParseWifi

SpecWifi == WifiInit /\ [][WifiNext]_vars

\* C3: in every WiFiNetwork and CurrentWiFi record, also with no active line
\* and when the nmcli call fails, security is one of Open, WEP, WPA, WPA2,
\* WPA3, Unknown.
C3_SecurityEnum ==
    wifiPc = "parsed" =>
        /\ \A i \in 1..Len(networks.items) : networks.items[i].Security \in SecurityTypes
        /\ currentWiFi.Security \in SecurityTypes

\* exactly one "%", and it is the last character
OnePercent(sig) ==
    /\ sig # <<>>
    /\ sig[Len(sig)] = "%"
    /\ \A i \in 1..(Len(sig) - 1) : sig[i] # "%"

\* C11: in every WiFiNetwork record and every connected CurrentWiFi record the
\* signal has exactly one trailing "%", whether the raw SIGNAL field is a bare
\* integer or already ends in "%".
C11_SignalOnePercent ==
    wifiPc = "parsed" =>
        /\ \A i \in 1..Len(networks.items) : OnePercent(networks.items[i].Signal)
        /\ currentWiFi.Connected => OnePercent(currentWiFi.Signal)

\* the scan output MyNet:67:WPA2 / --:80: / (blank) / Home:45:
ScanExample ==
    Join(<<Join(<<sMyNet, <<"6","7">>, TokWPA2>>, Colon),
           Join(<<Dashes, <<"8","0">>, <<>>>>, Colon),
           <<>>,
           Join(<<sHome, <<"4","5">>, <<>>>>, Colon)>>, <<"\n">>)

\* how many times the character c occurs in s
RECURSIVE CountChar(_, _)
CountChar(s, c) ==
    IF s = <<>> THEN 0
    ELSE (IF Head(s) = c THEN 1 ELSE 0) + CountChar(Tail(s), c)

\* C13: the four-line scan output yields exactly the records MyNet and Home,
\* in that order; the "--" line has the three fields the parser asks for and
\* is the only line the SSID filter removes.
C13_ScanExample ==
    (wifiPc = "parsed" /\ text = ScanExample) =>
        /\ networks.items =
               << [SSID |-> sMyNet, Signal |-> <<"6","7","%">>, Security |-> "WPA2"],
                  [SSID |-> sHome,  Signal |-> <<"4","5","%">>, Security |-> "Open"] >>
        /\ CountChar(Join(<<Dashes, <<"8","0">>, <<>>>>, Colon), ":") + 1 >= 3
        /\ \A i \in 1..Len(networks.items) : networks.items[i].SSID # Dashes

C13_Witness ==
    /\ wifiPc = "parsed"
    /\ text = ScanExample
    /\ Len(networks.items) = 2

(***************************************************************************)
(* The ps parsers                                                          *)
(***************************************************************************)
AppendProcess(procs, p) == [isNil |-> FALSE, items |-> Append(procs.items, p)]

\* strings.Fields: the maximal runs of non-space characters
RECURSIVE Fields(_)
Fields(s) ==
    LET t == TrimLeft(s)
    IN  IF t = <<>> THEN <<>>
        ELSE LET n == IF \E i \in 1..Len(t) : IsSpace(t[i])
                      THEN (CHOOSE k \in 1..Len(t) :
                                IsSpace(t[k]) /\ \A j \in 1..(k - 1) : ~IsSpace(t[j])) - 1
                      ELSE Len(t)
             IN  <<SubSeq(t, 1, n)>> \o Fields(SubSeq(t, n + 1, Len(t)))

Digits == <<"0","1","2","3","4","5","6","7","8","9">>
IsDigit(c) == \E i \in 1..Len(Digits) : Digits[i] = c
DigitVal(c) == (CHOOSE i \in 1..Len(Digits) : Digits[i] = c) - 1

RECURSIVE DecimalValue(_)
DecimalValue(ds) ==
    IF ds = <<>> THEN 0
    ELSE 10 * DecimalValue(SubSeq(ds, 1, Len(ds) - 1)) + DigitVal(ds[Len(ds)])

\* strconv.Atoi: an optional sign and one or more decimal digits
Atoi(s) ==
    LET signed == s # <<>> /\ s[1] \in {"+", "-"}
        ds     == IF signed THEN Tail(s) ELSE s
    IN  IF ds # <<>> /\ \A i \in 1..Len(ds) : IsDigit(ds[i])
        THEN [ok |-> TRUE,
              val |-> IF signed /\ s[1] = "-" THEN 0 - DecimalValue(ds) ELSE DecimalValue(ds)]
        ELSE [ok |-> FALSE, val |-> 0]

\* strings.Index(s, " "): the 0-based index of the first space, or -1
IndexSpace(s) ==
    IF \E i \in 1..Len(s) : s[i] = " "
    THEN (CHOOSE k \in 1..Len(s) : s[k] = " " /\ \A j \in 1..(k - 1) : s[j] # " ") - 1
    ELSE 0 - 1

\* the name cut one character too far
ProcessName_WithSpace(command) ==
    IF IndexSpace(command) > 0 THEN SubSeq(command, 1, IndexSpace(command) + 1) ELSE command

\* name := command; if spaceIndex > 0 { name = command[:spaceIndex] }
ProcessName(command) ==
    IF IndexSpace(command) > 0 THEN SubSeq(command, 1, IndexSpace(command)) ELSE command

\* the loop body keeping a row whose PID is not an integer, as process 0
PsAuxLine_KeepBadPid(procs, i, line) ==
    LET fields == Fields(line)
    IN  IF i = 0 \/ TrimSpace(line) = <<>> THEN procs
        ELSE IF Len(fields) < 11 THEN procs
        ELSE LET command == Join(SubSeq(fields, 11, Len(fields)), <<" ">>)
                 pid     == Atoi(fields[2])
             IN  AppendProcess(procs,
                     [PID     |-> pid.val,
                      Name    |-> ProcessName(command),
                      Status  |-> fields[8],
                      CPU     |-> fields[3] \o <<"%">>,
                      Memory  |-> fields[4] \o <<"%">>,
                      User    |-> fields[1],
                      Command |-> command])

\* the loop body without its test of the line index
PsAuxLine_NoSkip(procs, i, line) ==
    LET fields == Fields(line)
    IN  IF TrimSpace(line) = <<>> THEN procs
        ELSE IF Len(fields) < 11 THEN procs
        ELSE LET command == Join(SubSeq(fields, 11, Len(fields)), <<" ">>)
                 pid     == Atoi(fields[2])
             IN  IF ~pid.ok THEN procs
                 ELSE AppendProcess(procs,
                          [PID     |-> pid.val,
                           Name    |-> ProcessName(command),
                           Status  |-> fields[8],
                           CPU     |-> fields[3] \o <<"%">>,
                           Memory  |-> fields[4] \o <<"%">>,
                           User    |-> fields[1],
                           Command |-> command])

\* the loop body taking the eleventh column alone as the command
PsAuxLine_FirstWord(procs, i, line) ==
    LET fields == Fields(line)
    IN  IF i = 0 \/ TrimSpace(line) = <<>> THEN procs
        ELSE IF Len(fields) < 11 THEN procs
        ELSE LET command == fields[11]
                 pid     == Atoi(fields[2])
             IN  IF ~pid.ok THEN procs
                 ELSE AppendProcess(procs,
                          [PID     |-> pid.val,
                           Name    |-> ProcessName(command),
                           Status  |-> fields[8],
                           CPU     |-> fields[3] \o <<"%">>,
                           Memory  |-> fields[4] \o <<"%">>,
                           User    |-> fields[1],
                           Command |-> command])

\* the body of the loop of parsePsAuxOutput for the line at 0-based index i
PsAuxLine(procs, i, line) ==
    LET fields == Fields(line)
    IN  IF i = 0 \/ TrimSpace(line) = <<>> THEN procs
        ELSE IF Len(fields) < 11 THEN procs
        ELSE LET command == Join(SubSeq(fields, 11, Len(fields)), <<" ">>)
                 pid     == Atoi(fields[2])
             IN  IF ~pid.ok THEN procs
                 ELSE AppendProcess(procs,
                          [PID     |-> pid.val,
                           Name    |-> ProcessName(command),
                           Status  |-> fields[8],
                           CPU     |-> fields[3] \o <<"%">>,
                           Memory  |-> fields[4] \o <<"%">>,
                           User    |-> fields[1],
                           Command |-> command])

RECURSIVE PsAuxLines(_, _, _)
PsAuxLines(procs, i, lines) ==
    IF i >= Len(lines) THEN procs
    ELSE PsAuxLines(PsAuxLine(procs, i, lines[i + 1]), i + 1, lines)

parsePsAuxOutput(output) == PsAuxLines(NoProcesses, 0, Split(output, "\n"))

\* the loop body asking for nine columns
PsEfLine_NineColumns(procs, i, line) ==
    LET fields == Fields(line)
    IN  IF i = 0 \/ TrimSpace(line) = <<>> THEN procs
        ELSE IF Len(fields) < 9 THEN procs
        ELSE LET command == Join(SubSeq(fields, 8, Len(fields)), <<" ">>)
                 pid     == Atoi(fields[2])
             IN  IF ~pid.ok THEN procs
                 ELSE AppendProcess(procs,
                          [PID     |-> pid.val,
                           Name    |-> ProcessName(command),
                           Status  |-> <<"R">>,
                           CPU     |-> <<"0","%">>,
                           Memory  |-> <<"0","%">>,
                           User    |-> fields[1],
                           Command |-> command])

\* the body of the loop of parsePsEfOutput for the line at 0-based index i
PsEfLine(procs, i, line) ==
    LET fields == Fields(line)
    IN  IF i = 0 \/ TrimSpace(line) = <<>> THEN procs
        ELSE IF Len(fields) < 8 THEN procs
        ELSE LET command == Join(SubSeq(fields, 8, Len(fields)), <<" ">>)
                 pid     == Atoi(fields[2])
             IN  IF ~pid.ok THEN procs
                 ELSE AppendProcess(procs,
                          [PID     |-> pid.val,
                           Name    |-> ProcessName(command),
                           Status  |-> <<"R">>,
                           CPU     |-> <<"0","%">>,
                           Memory  |-> <<"0","%">>,
                           User    |-> fields[1],
                           Command |-> command])

RECURSIVE PsEfLines(_, _, _)
PsEfLines(procs, i, lines) ==
    IF i >= Len(lines) THEN procs
    ELSE PsEfLines(PsEfLine(procs, i, lines[i + 1]), i + 1, lines)

parsePsEfOutput(output) == PsEfLines(NoProcesses, 0, Split(output, "\n"))

\* what ps aux and ps -ef print: a header line and process rows
PsAuxText ==
    Join(<< Join(<<<<"U","S","E","R">>, <<"P","I","D">>, <<"%","C","P","U">>, <<"%","M","E","M">>, <<"V","S","Z">>, <<"R","S","S">>, <<"T","T","Y">>, <<"S","T","A","T">>, <<"S","T","A","R","T">>, <<"T","I","M","E">>, <<"C","O","M","M","A","N","D">>>>, <<" ">>),
            Join(<<<<"r","o","o","t">>, <<"1">>, <<"0",".","0">>, <<"0",".","1">>, <<"1">>, <<"2">>, <<"?">>, <<"S","s">>, <<"1","0",":","0","0">>, <<"0",":","0","1">>, <<"n","g","i","n","x",":">>, <<"w","o","r","k","e","r">>, <<"p","r","o","c","e","s","s">>>>, <<" ">>),
            Join(<<<<"w","w","w">>, <<"4","2">>, <<"1",".","5">>, <<"2",".","0">>, <<"3">>, <<"4">>, <<"?">>, <<"S">>, <<"1","0",":","0","1">>, <<"0",":","0","0">>, <<"s","h">>>>, <<" ">>),
            <<>> >>, <<"\n">>)

PsEfText ==
    Join(<< Join(<<<<"U","I","D">>, <<"P","I","D">>, <<"P","P","I","D">>, <<"C">>, <<"S","T","I","M","E">>, <<"T","T","Y">>, <<"T","I","M","E">>, <<"C","M","D">>>>, <<" ">>),
            Join(<<<<"r","o","o","t">>, <<"1">>, <<"0">>, <<"0">>, <<"1","0",":","0","0">>, <<"?">>, <<"0","0",":","0","0",":","0","1">>, <<"/","s","b","i","n","/","i","n","i","t">>, <<"s","p","l","a","s","h">>>>, <<" ">>),
            <<>> >>, <<"\n">>)

(***************************************************************************)
(* SpecPs: ps output texts, built row by row.  A row is kept as its        *)
(* columns, its command words and the white space ps put between them, so  *)
(* that what the parsers return can be compared with what ps printed.      *)
(***************************************************************************)
\* the header of ps aux
RowAuxHeader ==
    [cols  |-> <<<<"U","S","E","R">>, <<"P","I","D">>, <<"%","C","P","U">>, <<"%","M","E","M">>, <<"V","S","Z">>, <<"R","S","S">>, <<"T","T","Y">>, <<"S","T","A","T">>, <<"S","T","A","R","T">>, <<"T","I","M","E">>>>,
     words |-> <<<<"C","O","M","M","A","N","D">>>>,
     psep  |-> <<" ">>, sep |-> <<" ">>,
     pid   |-> [ok |-> FALSE, val |-> 0]]

\* a ps aux row whose command has three words
RowNginx ==
    [cols  |-> <<<<"r","o","o","t">>, <<"1">>, <<"0",".","0">>, <<"0",".","1">>, <<"1">>, <<"2">>, <<"?">>, <<"S","s">>, <<"1","0",":","0","0">>, <<"0",":","0","1">>>>,
     words |-> <<<<"n","g","i","n","x",":">>, <<"w","o","r","k","e","r">>, <<"p","r","o","c","e","s","s">>>>,
     psep  |-> <<" ">>, sep |-> <<" ">>,
     pid   |-> [ok |-> TRUE, val |-> 1]]

\* a ps aux row with padded columns and a one-word command
RowSh ==
    [cols  |-> <<<<"w","w","w">>, <<"4","2">>, <<"1",".","5">>, <<"2",".","0">>, <<"3">>, <<"4">>, <<"?">>, <<"S">>, <<"1","0",":","0","1">>, <<"0",":","0","0">>>>,
     words |-> <<<<"s","h">>>>,
     psep  |-> <<" "," ">>, sep |-> <<" ">>,
     pid   |-> [ok |-> TRUE, val |-> 42]]

\* a ps aux row whose command has two spaces between its words
RowSleep ==
    [cols  |-> <<<<"r","o","o","t">>, <<"7">>, <<"0",".","0">>, <<"0",".","0">>, <<"5">>, <<"6">>, <<"?">>, <<"S">>, <<"1","0",":","0","2">>, <<"0",":","0","0">>>>,
     words |-> <<<<"s","l","e","e","p">>, <<"5">>>>,
     psep  |-> <<" ">>, sep |-> <<" "," ">>,
     pid   |-> [ok |-> TRUE, val |-> 7]]

\* a ps aux row whose PID column is not an integer
RowBadPid ==
    [cols  |-> <<<<"r","o","o","t">>, <<"1","a">>, <<"0",".","0">>, <<"0",".","0">>, <<"5">>, <<"6">>, <<"?">>, <<"S">>, <<"1","0",":","0","3">>, <<"0",":","0","0">>>>,
     words |-> <<<<"c","r","o","n">>>>,
     psep  |-> <<" ">>, sep |-> <<" ">>,
     pid   |-> [ok |-> FALSE, val |-> 0]]

\* ten columns: a ps aux row without a command
RowTenColumns ==
    [cols  |-> <<<<"r","o","o","t">>, <<"9">>, <<"0",".","0">>, <<"0",".","1">>, <<"1">>, <<"2">>, <<"?">>, <<"S">>, <<"1","0",":","0","4">>, <<"0",":","0","0">>>>,
     words |-> <<>>,
     psep  |-> <<" ">>, sep |-> <<" ">>,
     pid   |-> [ok |-> TRUE, val |-> 9]]

\* a blank line
RowBlank ==
    [cols  |-> <<>>,
     words |-> <<>>,
     psep  |-> <<" ">>, sep |-> <<" ">>,
     pid   |-> [ok |-> FALSE, val |-> 0]]

\* a ps -ef row whose command has two words
RowInit ==
    [cols  |-> <<<<"r","o","o","t">>, <<"1">>, <<"0">>, <<"0">>, <<"1","0",":","0","0">>, <<"?">>, <<"0","0",":","0","0",":","0","1">>>>,
     words |-> <<<<"/","s","b","i","n","/","i","n","i","t">>, <<"s","p","l","a","s","h">>>>,
     psep  |-> <<" ">>, sep |-> <<" ">>,
     pid   |-> [ok |-> TRUE, val |-> 1]]

\* a ps -ef row with a one-word command: eight columns
RowEfSh ==
    [cols  |-> <<<<"w","w","w">>, <<"4","2">>, <<"1">>, <<"0">>, <<"1","0",":","0","1">>, <<"?">>, <<"0","0",":","0","0",":","0","0">>>>,
     words |-> <<<<"s","h">>>>,
     psep  |-> <<" ">>, sep |-> <<" ">>,
     pid   |-> [ok |-> TRUE, val |-> 42]]

\* seven columns: a ps -ef row without a command
RowSevenColumns ==
    [cols  |-> <<<<"w","w","w">>, <<"4","3">>, <<"1">>, <<"0">>, <<"1","0",":","0","1">>, <<"?">>, <<"0","0",":","0","0",":","0","0">>>>,
     words |-> <<>>,
     psep  |-> <<" ">>, sep |-> <<" ">>,
     pid   |-> [ok |-> TRUE, val |-> 43]]

PsRows ==
    { RowAuxHeader,
      RowNginx,
      RowSh,
      RowSleep,
      RowBadPid,
      RowTenColumns,
      RowBlank,
      RowInit,
      RowEfSh,
      RowSevenColumns }

\* the line ps prints for a row
RowLine(r) ==
    Join(IF r.words = <<>> THEN r.cols ELSE Append(r.cols, Join(r.words, r.sep)), r.psep)

RECURSIVE RowLines(_)
RowLines(rows) ==
    IF rows = <<>> THEN <<>> ELSE <<RowLine(Head(rows))>> \o RowLines(Tail(rows))

\* the text ps prints for a sequence of rows
PsOutput(rows) == Join(RowLines(rows), <<"\n">>)

\* ps is about to print; everything else is off
PsInit ==
    /\ normPc = "off"
    /\ raw = <<>>
    /\ nparts = 0
    /\ normalized = ""
    /\ renormalized = ""
    /\ wifiPc = "off"
    /\ text = <<>>
    /\ nfrags = 0
    /\ cmdOk = TRUE
    /\ networks = NoNetworks
    /\ currentWiFi = ZeroCurrentWiFi
    /\ started = FALSE
    /\ nmcliAvailable = FALSE
    /\ startTime = 0
    /\ now = 0
    /\ goos = "linux"
    /\ reqs = EmptyBag
    /\ psPc = "build"
    /\ psRows = <<>>
    /\ psText = <<>>
    /\ psAux = NoProcesses
    /\ psEf = NoProcesses
    /\ ifPc = "off"
    /\ ifaces = <<>>
    /\ ifResult = NoInterfaces
    /\ frontPc = "off"
    /\ signal = Undefined
    /\ strength = 0
    /\ ifName = <<>>
    /\ ifType = ""
    /\ loadingHidden = TRUE
    /\ wifiList = ""
    /\ pageCurrentWiFi = "null"
    /\ scanCalls = <<>>
    /\ shPc = "off"
    /\ fs = NoFiles
    /\ shVar = NoShVars
    /\ service = "inactive"
    /\ errorMsg = ""
    /\ exitStatus = -1

\* ps prints one more row
AppendRow ==
    /\ psPc = "build"
    /\ Len(psRows) < MaxRows
    /\ \E r \in PsRows : psRows' = Append(psRows, r)
    /\ psText' = PsOutput(psRows')
    /\ UNCHANGED <<psPc, psAux, psEf, normVars, wifiVars, httpVars, ifaceVars, frontVars, pageVars, shVars>>

\* getProcesses hands the text to parsePsAuxOutput, or to parsePsEfOutput
\* when ps aux failed
ParsePs ==
    /\ psPc = "build"
    /\ psAux' = parsePsAuxOutput(psText)
    /\ psEf' = parsePsEfOutput(psText)
    /\ psPc' = "parsed"
    /\ UNCHANGED <<psRows, psText, normVars, wifiVars, httpVars, ifaceVars, frontVars, pageVars, shVars>>

PsNext == AppendRow \/ ParsePs

SpecPs == PsInit /\ [][PsNext]_vars

\* the columns and command words of a row, in the order ps printed them
RowFields(r) == r.cols \o r.words

\* a row with more than k columns and an integer PID column
WellFormed(r, k) == Len(RowFields(r)) > k /\ r.pid.ok

\* the well-formed rows after the first line
Accepted(rows, k) ==
    IF rows = <<>> THEN <<>>
    ELSE SelectSeq(Tail(rows), LAMBDA r : WellFormed(r, k))

\* what ps printed after the k-th column of a row
OrigCommand(r, k) ==
    Join(SubSeq(r.cols, k + 1, Len(r.cols))
             \o (IF r.words = <<>> THEN <<>> ELSE <<Join(r.words, r.sep)>>),
         r.psep)

\* C14 as stated: for every ps aux row whose command has several words, with
\* one or several spaces between them, the command of the parsed Process is
\* the command text as ps printed it.
C14_CommandVerbatim ==
    (psPc = "parsed" /\ Len(psAux.items) = Len(Accepted(psRows, 10))) =>
        \A j \in 1..Len(psAux.items) :
            Len(Accepted(psRows, 10)[j].words) > 1 =>
                psAux.items[j].Command = OrigCommand(Accepted(psRows, 10)[j], 10)

\* C14 amended: the command of the parsed Process is the words of the printed
\* command joined by single spaces; it is the printed text verbatim when the
\* words were printed with single spaces between them.
C14_CommandRejoined ==
    (psPc = "parsed" /\ Len(psAux.items) = Len(Accepted(psRows, 10))) =>
        \A j \in 1..Len(psAux.items) :
            LET r == Accepted(psRows, 10)[j]
            IN  Len(r.words) > 1 =>
                    /\ psAux.items[j].Command = Join(r.words, <<" ">>)
                    /\ r.sep = <<" ">> =>
                           psAux.items[j].Command = OrigCommand(r, 10)

C14_Witness ==
    /\ psPc = "parsed"
    /\ psRows = <<RowAuxHeader, RowNginx, RowSleep>>
    /\ Len(psAux.items) = 2
    /\ psAux.items[1].Command = OrigCommand(RowNginx, 10)
    /\ psAux.items[2].Command # OrigCommand(RowSleep, 10)

\* the records are, in order, those of the rows of acc
RecordsOf(procs, acc) ==
    /\ Len(procs.items) = Len(acc)
    /\ \A j \in 1..Len(acc) :
           /\ procs.items[j].PID = acc[j].pid.val
           /\ procs.items[j].User = acc[j].cols[1]

\* C17: the ps parsers skip the first line of the text whatever it holds, a
\* well-formed row included, and every later non-blank well-formed row
\* yields a record.
C17_FirstLineSkipped ==
    psPc = "parsed" =>
        /\ RecordsOf(psAux, Accepted(psRows, 10))
        /\ RecordsOf(psEf, Accepted(psRows, 7))

C17_Witness ==
    /\ psPc = "parsed"
    /\ psRows = <<RowNginx, RowSh, RowInit>>
    /\ Len(psAux.items) = 1
    /\ psAux.items[1].PID = 42
    /\ Len(psEf.items) = 2

\* s has no space in it
NoSpace(s) == \A i \in 1..Len(s) : s[i] # " "

\* name is command up to its first space, or all of it
NameOfCommand(name, command) ==
    /\ name # <<>>
    /\ NoSpace(name)
    /\ Len(name) <= Len(command)
    /\ name = SubSeq(command, 1, Len(name))
    /\ Len(name) < Len(command) => command[Len(name) + 1] = " "

\* C18: in every Process record, name is the part of command before its
\* first space, or the whole command when it has no space: a non-empty
\* prefix of command without a space.
C18_NamePrefix ==
    psPc = "parsed" =>
        /\ \A j \in 1..Len(psAux.items) :
               NameOfCommand(psAux.items[j].Name, psAux.items[j].Command)
        /\ \A j \in 1..Len(psEf.items) :
               NameOfCommand(psEf.items[j].Name, psEf.items[j].Command)

C18_Witness ==
    /\ psPc = "parsed"
    /\ \E j \in 1..Len(psAux.items) :
           /\ psAux.items[j].Command = Join(RowNginx.words, <<" ">>)
           /\ psAux.items[j].Name = RowNginx.words[1]
    /\ \E j \in 1..Len(psAux.items) :
           /\ psAux.items[j].Command = RowSh.words[1]
           /\ psAux.items[j].Name = RowSh.words[1]

(***************************************************************************)
(* SpecParsers: one of the two tools, nmcli or ps, prints a text and the   *)
(* parsers of that tool are applied to it.                                 *)
(***************************************************************************)
ParsersInit ==
    /\ normPc = "off"
    /\ raw = <<>>
    /\ nparts = 0
    /\ normalized = ""
    /\ renormalized = ""
    /\ wifiPc \in {"build", "off"}
    /\ text = <<>>
    /\ nfrags = 0
    /\ cmdOk = TRUE
    /\ networks = NoNetworks
    /\ currentWiFi = ZeroCurrentWiFi
    /\ started = FALSE
    /\ nmcliAvailable = FALSE
    /\ startTime = 0
    /\ now = 0
    /\ goos = "linux"
    /\ reqs = EmptyBag
    /\ psPc = IF wifiPc = "off" THEN "build" ELSE "off"
    /\ psRows = <<>>
    /\ psText = <<>>
    /\ psAux = NoProcesses
    /\ psEf = NoProcesses
    /\ ifPc = "off"
    /\ ifaces = <<>>
    /\ ifResult = NoInterfaces
    /\ frontPc = "off"
    /\ signal = Undefined
    /\ strength = 0
    /\ ifName = <<>>
    /\ ifType = ""
    /\ loadingHidden = TRUE
    /\ wifiList = ""
    /\ pageCurrentWiFi = "null"
    /\ scanCalls = <<>>
    /\ shPc = "off"
    /\ fs = NoFiles
    /\ shVar = NoShVars
    /\ service = "inactive"
    /\ errorMsg = ""
    /\ exitStatus = -1

ParsersNext == AppendLine \/ ParseWifi \/ AppendRow \/ ParsePs

SpecParsers == ParsersInit /\ [][ParsersNext]_vars

\* a sequence without its i-th element
Without(seq, i) == SubSeq(seq, 1, i - 1) \o SubSeq(seq, i + 1, Len(seq))

\* the lines of the text nmcli printed
TextLines == Split(text, "\n")

\* how many colon-separated fields a line has
FieldCount(line) == CountChar(line, ":") + 1

\* C15: a malformed line (too few fields, or for ps a PID column that is not
\* an integer) yields no record and leaves the records of the other lines as
\* they are: the parse of the text is the parse of the text without the line.
C15_MalformedDropped ==
    /\ psPc = "parsed" =>
           /\ Len(psAux.items) = Len(Accepted(psRows, 10))
           /\ Len(psEf.items) = Len(Accepted(psRows, 7))
           /\ \A i \in 2..Len(psRows) :
                  /\ ~WellFormed(psRows[i], 10) =>
                         parsePsAuxOutput(PsOutput(Without(psRows, i))) = psAux
                  /\ ~WellFormed(psRows[i], 7) =>
                         parsePsEfOutput(PsOutput(Without(psRows, i))) = psEf
    /\ wifiPc = "parsed" =>
           \A i \in 1..Len(TextLines) :
               /\ FieldCount(TextLines[i]) < 3 =>
                      parseNmcliOutput(Join(Without(TextLines, i), <<"\n">>)) = networks
               /\ FieldCount(TextLines[i]) < 4 =>
                      getCurrentWiFi(cmdOk, Join(Without(TextLines, i), <<"\n">>)) = currentWiFi

C15_Witness ==
    /\ psPc = "parsed"
    /\ psRows = <<RowAuxHeader, RowBadPid, RowNginx>>
    /\ Len(psAux.items) = 1
    /\ psAux.items[1].PID = 1

\* the colon-separated fields of a line of nmcli
NmcliFields(line) == Split(TrimSpace(line), ":")

\* a line cut after its n-th colon-separated field
Truncate(line, n) ==
    IF FieldCount(line) > n
    THEN Join(SubSeq(NmcliFields(line), 1, n), Colon)
    ELSE line

RECURSIVE TruncateAll(_, _)
TruncateAll(lines, n) ==
    IF lines = <<>> THEN <<>>
    ELSE <<Truncate(Head(lines), n)>> \o TruncateAll(Tail(lines), n)

\* a non-blank line with at least n fields whose k-th field is an SSID
HasSsid(line, n, k) ==
    /\ TrimSpace(line) # <<>>
    /\ FieldCount(line) >= n
    /\ NmcliFields(line)[k] # <<>>
    /\ NmcliFields(line)[k] # Dashes

\* the columns of a row from the k-th on, joined by single spaces
CommandFrom(r, k) == Join(SubSeq(RowFields(r), k, Len(RowFields(r))), <<" ">>)

\* the commands of the records are those of the rows of acc, from column k on
CommandsOf(procs, acc, k) ==
    /\ Len(procs.items) = Len(acc)
    /\ \A j \in 1..Len(acc) : procs.items[j].Command = CommandFrom(acc[j], k)

\* C16: a non-blank line with exactly the minimum number of fields is
\* accepted and one with fewer is rejected: 3 fields for the WiFi list, 4 for
\* the current WiFi, 11 columns for ps aux, 8 for ps -ef; the nmcli parsers
\* ignore the fields beyond the minimum and the ps parsers join them into
\* the command.
C16_MinimumFields ==
    /\ psPc = "parsed" =>
           /\ CommandsOf(psAux, Accepted(psRows, 10), 11)
           /\ CommandsOf(psEf, Accepted(psRows, 7), 8)
    /\ wifiPc = "parsed" =>
           /\ Len(networks.items) =
                  Len(SelectSeq(TextLines, LAMBDA l : HasSsid(l, 3, 1)))
           /\ networks = parseNmcliOutput(Join(TruncateAll(TextLines, 3), <<"\n">>))
           /\ currentWiFi.Connected <=>
                  /\ cmdOk
                  /\ \E i \in 1..Len(TextLines) :
                         /\ HasSsid(TextLines[i], 4, 2)
                         /\ NmcliFields(TextLines[i])[1] = sYes
           /\ currentWiFi = getCurrentWiFi(cmdOk, Join(TruncateAll(TextLines, 4), <<"\n">>))

C16_Witness ==
    /\ psPc = "parsed"
    /\ psRows = <<RowAuxHeader, RowSh, RowEfSh>>
    /\ Len(psAux.items) = 1
    /\ Len(psEf.items) = 2
    /\ psEf.items[2].Command = RowEfSh.words[1]

(***************************************************************************)
(* getNetworkInterfaces.  A net.IP is its sequence of bytes, 4 or 16 of    *)
(* them; an address is an *net.IPNet or another net.Addr.                  *)
(***************************************************************************)
\* strconv.Itoa for a natural number
RECURSIVE Itoa(_)
Itoa(n) ==
    IF n < 10 THEN <<Digits[n + 1]>>
    ELSE Itoa(n \div 10) \o <<Digits[(n % 10) + 1]>>

\* net.IPv4(a, b, c, d): the 16-byte form of an IPv4 address
IPv4(a, b, c, d) == <<0, 0, 0, 0, 0, 0, 0, 0, 0, 0, 255, 255, a, b, c, d>>

\* ip.To4(): the 4-byte form, or nil (the empty sequence) for an IPv6 address
To4(ip) ==
    IF Len(ip) = 4 THEN ip
    ELSE IF /\ Len(ip) = 16
            /\ \A i \in 1..10 : ip[i] = 0
            /\ ip[11] = 255
            /\ ip[12] = 255
         THEN SubSeq(ip, 13, 16)
         ELSE <<>>

\* ip.IsLoopback(): 127.0.0.0/8 or ::1
IsLoopback(ip) ==
    IF To4(ip) # <<>> THEN To4(ip)[1] = 127
    ELSE ip = <<0, 0, 0, 0, 0, 0, 0, 0, 0, 0, 0, 0, 0, 0, 0, 1>>

\* ip.String() of an address that has a 4-byte form: dotted decimal
IPString(ip) ==
    Join(<<Itoa(To4(ip)[1]), Itoa(To4(ip)[2]), Itoa(To4(ip)[3]), Itoa(To4(ip)[4])>>, <<".">>)

NoAddrs == [isNil |-> TRUE, items |-> <<>>]        \* var ipAddrs []string

\* the body of the loop over addrs
AddrEntry(ipAddrs, addr) ==
    IF addr.kind = "IPNet" /\ ~IsLoopback(addr.ip)
    THEN IF To4(addr.ip) # <<>>
         THEN [isNil |-> FALSE, items |-> Append(ipAddrs.items, IPString(addr.ip))]
         ELSE ipAddrs
    ELSE ipAddrs

RECURSIVE AddrEntries(_, _)
AddrEntries(ipAddrs, addrs) ==
    IF addrs = <<>> THEN ipAddrs
    ELSE AddrEntries(AddrEntry(ipAddrs, Head(addrs)), Tail(addrs))

\* if ipAddrs == nil { ipAddrs = []string{} }
NeverNil(ipAddrs) == IF ipAddrs.isNil THEN [isNil |-> FALSE, items |-> <<>>] ELSE ipAddrs

\* the loop body that hands ipAddrs on as the loop over addrs left it
IfaceEntry_NilAddrs(result, iface) ==
    IF iface.loopback THEN result
    ELSE IF iface.addrsErr THEN result
    ELSE [err   |-> FALSE,
          isNil |-> FALSE,
          items |-> Append(result.items,
                        [Name    |-> iface.name,
                         IPAddrs |-> AddrEntries(NoAddrs, iface.addrs),
                         Status  |-> IF iface.up THEN "up" ELSE "down"])]

\* the body of the loop over interfaces
IfaceEntry(result, iface) ==
    IF iface.loopback THEN result
    ELSE IF iface.addrsErr THEN result
    ELSE [err   |-> FALSE,
          isNil |-> FALSE,
          items |-> Append(result.items,
                        [Name    |-> iface.name,
                         IPAddrs |-> NeverNil(AddrEntries(NoAddrs, iface.addrs)),
                         Status  |-> IF iface.up THEN "up" ELSE "down"])]

RECURSIVE IfaceEntries(_, _)
IfaceEntries(result, interfaces) ==
    IF interfaces = <<>> THEN result
    ELSE IfaceEntries(IfaceEntry(result, Head(interfaces)), Tail(interfaces))

\* getNetworkInterfaces, given whether net.Interfaces() succeeded
getNetworkInterfaces(ok, interfaces) ==
    IF ~ok THEN [err |-> TRUE, isNil |-> TRUE, items |-> <<>>]
    ELSE IfaceEntries(NoInterfaces, interfaces)

(***************************************************************************)
(* SpecIface: the interfaces of the machine, then getNetworkInterfaces     *)
(***************************************************************************)
IPNet(ip) == [kind |-> "IPNet", ip |-> ip]
IPAddr(ip) == [kind |-> "IPAddr", ip |-> ip]
LinkLocal6 == <<254, 128, 0, 0, 0, 0, 0, 0, 0, 0, 0, 0, 0, 0, 0, 1>>     \* fe80::1
Loopback6 == <<0, 0, 0, 0, 0, 0, 0, 0, 0, 0, 0, 0, 0, 0, 0, 1>>          \* ::1

\* the interfaces net.Interfaces() can return, with what Addrs() returns
IfLo ==
    [name |-> "lo", loopback |-> TRUE, up |-> TRUE, addrsErr |-> FALSE,
     addrs |-> <<IPNet(IPv4(127, 0, 0, 1)), IPNet(Loopback6)>>]
IfEth0 ==
    [name |-> "eth0", loopback |-> FALSE, up |-> TRUE, addrsErr |-> FALSE,
     addrs |-> <<IPNet(IPv4(192, 168, 1, 5)), IPNet(LinkLocal6)>>]
IfWlan0 ==
    [name |-> "wlan0", loopback |-> FALSE, up |-> FALSE, addrsErr |-> FALSE,
     addrs |-> <<>>]
IfTun0 ==
    [name |-> "tun0", loopback |-> FALSE, up |-> TRUE, addrsErr |-> FALSE,
     addrs |-> <<IPNet(<<10, 0, 0, 1>>), IPNet(IPv4(127, 0, 0, 2)), IPAddr(<<10, 0, 0, 9>>)>>]
IfBr0 ==
    [name |-> "br0", loopback |-> FALSE, up |-> TRUE, addrsErr |-> TRUE,
     addrs |-> <<>>]
IfDocker0 ==
    [name |-> "docker0", loopback |-> FALSE, up |-> FALSE, addrsErr |-> FALSE,
     addrs |-> <<IPNet(LinkLocal6)>>]

Interfaces == {IfLo, IfEth0, IfWlan0, IfTun0, IfBr0, IfDocker0}

IfaceInit ==
    /\ normPc = "off"
    /\ raw = <<>>
    /\ nparts = 0
    /\ normalized = ""
    /\ renormalized = ""
    /\ wifiPc = "off"
    /\ text = <<>>
    /\ nfrags = 0
    /\ cmdOk = TRUE
    /\ networks = NoNetworks
    /\ currentWiFi = ZeroCurrentWiFi
    /\ started = FALSE
    /\ nmcliAvailable = FALSE
    /\ startTime = 0
    /\ now = 0
    /\ goos = "linux"
    /\ reqs = EmptyBag
    /\ psPc = "off"
    /\ psRows = <<>>
    /\ psText = <<>>
    /\ psAux = NoProcesses
    /\ psEf = NoProcesses
    /\ ifPc = "build"
    /\ ifaces = <<>>
    /\ ifResult = NoInterfaces
    /\ frontPc = "off"
    /\ signal = Undefined
    /\ strength = 0
    /\ ifName = <<>>
    /\ ifType = ""
    /\ loadingHidden = TRUE
    /\ wifiList = ""
    /\ pageCurrentWiFi = "null"
    /\ scanCalls = <<>>
    /\ shPc = "off"
    /\ fs = NoFiles
    /\ shVar = NoShVars
    /\ service = "inactive"
    /\ errorMsg = ""
    /\ exitStatus = -1

\* the machine has one more interface
AppendIface ==
    /\ ifPc = "build"
    /\ Len(ifaces) < MaxIfaces
    /\ \E iface \in Interfaces : ifaces' = Append(ifaces, iface)
    /\ UNCHANGED <<ifPc, ifResult, normVars, wifiVars, httpVars, psVars, frontVars, pageVars, shVars>>

\* getNetworkInterfaces is called; net.Interfaces() succeeds or fails
CallGetNetworkInterfaces ==
    /\ ifPc = "build"
    /\ \E ok \in BOOLEAN : ifResult' = getNetworkInterfaces(ok, ifaces)
    /\ ifPc' = "done"
    /\ UNCHANGED <<ifaces, normVars, wifiVars, httpVars, psVars, frontVars, pageVars, shVars>>

IfaceNext == AppendIface \/ CallGetNetworkInterfaces

SpecIface == IfaceInit /\ [][IfaceNext]_vars

\* the IPv4 addresses of the interfaces that are not loopback addresses
PublicV4 == { <<"1","9","2",".","1","6","8",".","1",".","5">>, <<"1","0",".","0",".","0",".","1">> }

\* the interfaces a record is returned for
Listed(interfaces) == SelectSeq(interfaces, LAMBDA i : ~i.loopback /\ ~i.addrsErr)

\* C12: every record getNetworkInterfaces returns has a sequence of IP
\* addresses, never nil and empty when the interface has no IPv4 address,
\* that holds only IPv4 addresses that are not loopback addresses; no record
\* is returned for a loopback interface.
C12_IpAddressesNeverNil ==
    (ifPc = "done" /\ ~ifResult.err) =>
        /\ Len(ifResult.items) = Len(Listed(ifaces))
        /\ \A j \in 1..Len(ifResult.items) :
               LET rec == ifResult.items[j]
               IN  /\ ~rec.IPAddrs.isNil
                   /\ rec.Name = Listed(ifaces)[j].name
                   /\ rec.Name # "lo"
                   /\ \A k \in 1..Len(rec.IPAddrs.items) : rec.IPAddrs.items[k] \in PublicV4
                   /\ rec.Name \in {"wlan0", "docker0"} => rec.IPAddrs.items = <<>>
                   /\ rec.Name = "eth0" => rec.IPAddrs.items = <<<<"1","9","2",".","1","6","8",".","1",".","5">>>>
                   /\ rec.Name = "tun0" => rec.IPAddrs.items = <<<<"1","0",".","0",".","0",".","1">>>>

C12_Witness ==
    /\ ifPc = "done"
    /\ ~ifResult.err
    /\ ifaces = <<IfLo, IfWlan0>>
    /\ Len(ifResult.items) = 1
    /\ ifResult.items[1].IPAddrs = [isNil |-> FALSE, items |-> <<>>]

(***************************************************************************)
(* The page script static/app.js: getSignalStrength and getInterfaceType.  *)
(* A JavaScript string is a sequence of one-character strings.             *)
(***************************************************************************)
\* String.prototype.replace(pattern, '') with a string pattern: the first
\* occurrence is removed
RECURSIVE ReplaceFirst(_, _)
ReplaceFirst(s, c) ==
    IF s = <<>> THEN <<>>
    ELSE IF Head(s) = c THEN Tail(s)
    ELSE <<Head(s)>> \o ReplaceFirst(Tail(s), c)

HexLower == <<"0","1","2","3","4","5","6","7","8","9","a","b","c","d","e","f">>
HexUpper == <<"0","1","2","3","4","5","6","7","8","9","A","B","C","D","E","F">>

\* whether c is a digit in the radix, and its value
IsRadixDigit(c, radix) ==
    \E i \in 1..radix : HexLower[i] = c \/ HexUpper[i] = c
RadixVal(c, radix) ==
    (CHOOSE i \in 1..radix : HexLower[i] = c \/ HexUpper[i] = c) - 1

\* the longest prefix of s made of digits of the radix
RECURSIVE DigitPrefix(_, _)
DigitPrefix(s, radix) ==
    IF s = <<>> \/ ~IsRadixDigit(Head(s), radix) THEN <<>>
    ELSE <<Head(s)>> \o DigitPrefix(Tail(s), radix)

RECURSIVE RadixValue(_, _)
RadixValue(ds, radix) ==
    IF ds = <<>> THEN 0
    ELSE radix * RadixValue(SubSeq(ds, 1, Len(ds) - 1), radix) + RadixVal(ds[Len(ds)], radix)

NaN == [nan |-> TRUE, val |-> 0]

\* parseInt(string) without a radix: leading white space, a sign, 0x or 0X
\* for radix 16, then the longest prefix of digits; NaN when there is none
parseInt(string) ==
    LET t      == TrimLeft(string)
        signed == t # <<>> /\ t[1] \in {"+", "-"}
        u      == IF signed THEN Tail(t) ELSE t
        hex    == Len(u) >= 2 /\ u[1] = "0" /\ u[2] \in {"x", "X"}
        radix  == IF hex THEN 16 ELSE 10
        ds     == DigitPrefix(IF hex THEN SubSeq(u, 3, Len(u)) ELSE u, radix)
    IN  IF ds = <<>> THEN NaN
        ELSE [nan |-> FALSE,
              val |-> IF signed /\ t[1] = "-" THEN 0 - RadixValue(ds, radix)
                      ELSE RadixValue(ds, radix)]

sUnknown == <<"U","n","k","n","o","w","n">>

\* getSignalStrength with 75 itself in the bucket below
getSignalStrength_Above75(sig) ==
    IF ~sig.defined \/ sig.s = <<>> \/ sig.s = sUnknown THEN 0
    ELSE LET signalNum == parseInt(ReplaceFirst(sig.s, "%"))
         IN  IF signalNum.nan THEN 0
             ELSE IF signalNum.val > 75 THEN 4
             ELSE IF signalNum.val >= 50 THEN 3
             ELSE IF signalNum.val >= 25 THEN 2
             ELSE IF signalNum.val > 0 THEN 1
             ELSE 0

\* getSignalStrength(signal); every comparison with NaN is false
getSignalStrength(sig) ==
    IF ~sig.defined \/ sig.s = <<>> \/ sig.s = sUnknown THEN 0
    ELSE LET signalNum == parseInt(ReplaceFirst(sig.s, "%"))
         IN  IF signalNum.nan THEN 0
             ELSE IF signalNum.val >= 75 THEN 4
             ELSE IF signalNum.val >= 50 THEN 3
             ELSE IF signalNum.val >= 25 THEN 2
             ELSE IF signalNum.val > 0 THEN 1
             ELSE 0

\* String.prototype.startsWith
StartsWith(s, prefix) ==
    Len(s) >= Len(prefix) /\ SubSeq(s, 1, Len(prefix)) = prefix

\* getInterfaceType with the test for 'a' in place of 'ap', ahead of 'awdl'
getInterfaceType_Shadowed(interfaceName) ==
    IF StartsWith(interfaceName, <<"e","n">>) THEN "Ethernet"
    ELSE IF StartsWith(interfaceName, <<"w","l","a","n">>) THEN "WiFi"
    ELSE IF StartsWith(interfaceName, <<"w","i","f","i">>) THEN "WiFi"
    ELSE IF StartsWith(interfaceName, <<"l","o">>) THEN "Loopback"
    ELSE IF StartsWith(interfaceName, <<"p","p","p">>) THEN "PPP"
    ELSE IF StartsWith(interfaceName, <<"b","r","i","d","g","e">>) THEN "Bridge"
    ELSE IF StartsWith(interfaceName, <<"u","t","u","n">>) THEN "VPN Tunnel"
    ELSE IF StartsWith(interfaceName, <<"a">>) THEN "Access Point"
    ELSE IF StartsWith(interfaceName, <<"a","w","d","l">>) THEN "AirDrop"
    ELSE IF StartsWith(interfaceName, <<"l","l","w">>) THEN "Low Latency WiFi"
    ELSE IF StartsWith(interfaceName, <<"g","i","f">>) THEN "Generic Tunnel"
    ELSE IF StartsWith(interfaceName, <<"s","t","f">>) THEN "6to4 Tunnel"
    ELSE IF StartsWith(interfaceName, <<"a","n","p","i">>) THEN "Apple Network"
    ELSE "Network Interface"

getInterfaceType(interfaceName) ==
    IF StartsWith(interfaceName, <<"e","n">>) THEN "Ethernet"
    ELSE IF \/ StartsWith(interfaceName, <<"w","l","a","n">>)
            \/ StartsWith(interfaceName, <<"w","i","f","i">>) THEN "WiFi"
    ELSE IF StartsWith(interfaceName, <<"l","o">>) THEN "Loopback"
    ELSE IF StartsWith(interfaceName, <<"p","p","p">>) THEN "PPP"
    ELSE IF StartsWith(interfaceName, <<"b","r","i","d","g","e">>) THEN "Bridge"
    ELSE IF StartsWith(interfaceName, <<"u","t","u","n">>) THEN "VPN Tunnel"
    ELSE IF StartsWith(interfaceName, <<"a","w","d","l">>) THEN "AirDrop"
    ELSE IF StartsWith(interfaceName, <<"l","l","w">>) THEN "Low Latency WiFi"
    ELSE IF StartsWith(interfaceName, <<"g","i","f">>) THEN "Generic Tunnel"
    ELSE IF StartsWith(interfaceName, <<"s","t","f">>) THEN "6to4 Tunnel"
    ELSE IF StartsWith(interfaceName, <<"a","n","p","i">>) THEN "Apple Network"
    ELSE IF StartsWith(interfaceName, <<"a","p">>) THEN "Access Point"
    ELSE "Network Interface"

(***************************************************************************)
(* SpecFront: the page renders a network, calling getSignalStrength on its *)
(* signal, or an interface, calling getInterfaceType on its name.          *)
(***************************************************************************)
Str(s) == [defined |-> TRUE, s |-> s]

\* the signals the page can hold: a number with or without "%", and others
SignalInputs ==
    { Str(Itoa(n) \o suffix) : n \in 0..MaxSignal, suffix \in {<<>>, <<"%">>} }
        \cup { Undefined, Str(<<>>), Str(sUnknown),
               Str(<<"%">>),
               Str(<<"a","b","c","%">>),
               Str(<<"-","5","%">>),
               Str(<<" ","8","0","%">>),
               Str(<<"8","0","%","%">>),
               Str(<<"0","x","4","B","%">>),
               Str(<<"1","2","a","b","c">>) }

\* the starts of interface names: those the script tests for, and others
NameStarts ==
    { <<"e","n">>,
      <<"w","l","a","n">>,
      <<"w","i","f","i">>,
      <<"l","o">>,
      <<"p","p","p">>,
      <<"b","r","i","d","g","e">>,
      <<"u","t","u","n">>,
      <<"a","w","d","l">>,
      <<"l","l","w">>,
      <<"g","i","f">>,
      <<"s","t","f">>,
      <<"a","n","p","i">>,
      <<"a","p">>,
      <<"e","t","h">>,
      <<"e">>,
      <<"w">>,
      <<"l">>,
      <<"a">>,
      <<"x">>,
      <<"b","r">>,
      <<"t","u","n">> }

InterfaceNames ==
    { start \o rest : start \in NameStarts, rest \in {<<>>, <<"0">>, <<"9">>, <<"n","0">>, <<"p","1">>} }

FrontInit ==
    /\ normPc = "off"
    /\ raw = <<>>
    /\ nparts = 0
    /\ normalized = ""
    /\ renormalized = ""
    /\ wifiPc = "off"
    /\ text = <<>>
    /\ nfrags = 0
    /\ cmdOk = TRUE
    /\ networks = NoNetworks
    /\ currentWiFi = ZeroCurrentWiFi
    /\ started = FALSE
    /\ nmcliAvailable = FALSE
    /\ startTime = 0
    /\ now = 0
    /\ goos = "linux"
    /\ reqs = EmptyBag
    /\ psPc = "off"
    /\ psRows = <<>>
    /\ psText = <<>>
    /\ psAux = NoProcesses
    /\ psEf = NoProcesses
    /\ ifPc = "off"
    /\ ifaces = <<>>
    /\ ifResult = NoInterfaces
    /\ frontPc \in {"network", "interface"}
    /\ signal \in IF frontPc = "network" THEN SignalInputs ELSE {Undefined}
    /\ strength = 0
    /\ ifName \in IF frontPc = "interface" THEN InterfaceNames ELSE {<<>>}
    /\ ifType = ""
    /\ loadingHidden = TRUE
    /\ wifiList = ""
    /\ pageCurrentWiFi = "null"
    /\ scanCalls = <<>>
    /\ shPc = "off"
    /\ fs = NoFiles
    /\ shVar = NoShVars
    /\ service = "inactive"
    /\ errorMsg = ""
    /\ exitStatus = -1

\* renderWiFiNetworks asks for the bars of a network
CallGetSignalStrength ==
    /\ frontPc = "network"
    /\ strength' = getSignalStrength(signal)
    /\ frontPc' = "bars"
    /\ UNCHANGED <<signal, ifName, ifType, normVars, wifiVars, httpVars, psVars, ifaceVars, pageVars, shVars>>

\* renderInterfaces asks for the type of an interface
CallGetInterfaceType ==
    /\ frontPc = "interface"
    /\ ifType' = getInterfaceType(ifName)
    /\ frontPc' = "type"
    /\ UNCHANGED <<signal, strength, ifName, normVars, wifiVars, httpVars, psVars, ifaceVars, pageVars, shVars>>

FrontNext == CallGetSignalStrength \/ CallGetInterfaceType

SpecFront == FrontInit /\ [][FrontNext]_vars

\* the bars the claim gives a number
Bars(n) ==
    IF n >= 75 THEN 4
    ELSE IF n >= 50 THEN 3
    ELSE IF n >= 25 THEN 2
    ELSE IF n > 0 THEN 1
    ELSE 0

\* signals that are absent, empty, 'Unknown' or hold no number
NonNumeric == { Undefined, Str(<<>>), Str(sUnknown), Str(<<"%">>), Str(<<"a","b","c","%">>) }

\* C19: getSignalStrength returns a value in 0..4: for a signal that is the
\* number n, with or without "%", 4 if n >= 75, 3 if n >= 50, 2 if n >= 25,
\* 1 if n > 0 and 0 otherwise; 0 for an absent, empty, 'Unknown' or
\* non-numeric signal.
C19_SignalBars ==
    frontPc = "bars" =>
        /\ strength \in 0..4
        /\ signal \in NonNumeric => strength = 0
        /\ \A n \in 0..MaxSignal :
               signal \in {Str(Itoa(n)), Str(Itoa(n) \o <<"%">>)} => strength = Bars(n)

C19_Witness ==
    /\ frontPc = "bars"
    /\ signal = Str(<<"8","0","%">>)
    /\ strength = 4

\* the table of getInterfaceType, in its order
TypeTable ==
    << [prefix |-> <<"e","n">>, type |-> "Ethernet"],
       [prefix |-> <<"w","l","a","n">>, type |-> "WiFi"],
       [prefix |-> <<"w","i","f","i">>, type |-> "WiFi"],
       [prefix |-> <<"l","o">>, type |-> "Loopback"],
       [prefix |-> <<"p","p","p">>, type |-> "PPP"],
       [prefix |-> <<"b","r","i","d","g","e">>, type |-> "Bridge"],
       [prefix |-> <<"u","t","u","n">>, type |-> "VPN Tunnel"],
       [prefix |-> <<"a","w","d","l">>, type |-> "AirDrop"],
       [prefix |-> <<"l","l","w">>, type |-> "Low Latency WiFi"],
       [prefix |-> <<"g","i","f">>, type |-> "Generic Tunnel"],
       [prefix |-> <<"s","t","f">>, type |-> "6to4 Tunnel"],
       [prefix |-> <<"a","n","p","i">>, type |-> "Apple Network"],
       [prefix |-> <<"a","p">>, type |-> "Access Point"] >>

\* the type of the first entry of the table the name starts with
RECURSIVE FirstMatch(_, _)
FirstMatch(entries, name) ==
    IF entries = <<>> THEN "Network Interface"
    ELSE IF StartsWith(name, Head(entries).prefix) THEN Head(entries).type
    ELSE FirstMatch(Tail(entries), name)

\* C20: getInterfaceType returns the type of the first prefix of its table
\* the name starts with and 'Network Interface' when there is none; no entry
\* is shadowed by an earlier one: a name that starts with the prefix of an
\* entry gets the type of that entry.
C20_InterfaceType ==
    frontPc = "type" =>
        /\ ifType = FirstMatch(TypeTable, ifName)
        /\ \A i \in 1..Len(TypeTable) :
               StartsWith(ifName, TypeTable[i].prefix) => ifType = TypeTable[i].type
        /\ (\A i \in 1..Len(TypeTable) : ~StartsWith(ifName, TypeTable[i].prefix))
               => ifType = "Network Interface"

C20_Witness ==
    /\ frontPc = "type"
    /\ ifName = <<"w","l","a","n","0">>
    /\ ifType = "WiFi"

(***************************************************************************)
(* The HTTP handlers.  A request is a record: the handler's position (pc), *)
(* the decoded body, the argument vectors of the external processes it has *)
(* launched, how many of them are still running, what each returned, and   *)
(* the response written so far.                                            *)
(***************************************************************************)
NoBody == [valid |-> FALSE, ssid |-> "", password |-> "", security |-> ""]

\* var health SystemHealth: LastCheck is the instant that time.Now() returned
NoHealth == [Status |-> "", Uptime |-> <<>>, NetworkCheck |-> FALSE, LastCheck |-> 0]

\* nothing written to the http.ResponseWriter yet
NoResp ==
    [code     |-> 0,             \* the HTTP status
     payload  |-> "none",        \* which JSON value was encoded
     error    |-> <<>>,          \* the parts of the "error" text
     status   |-> "",            \* the "status" member
     message  |-> <<>>,          \* the parts of the "message" member
     networks |-> NoNetworks,
     current  |-> ZeroCurrentWiFi,
     processes |-> NoProcesses,
     available |-> FALSE,        \* the "available" member
     health   |-> NoHealth]

NewRequest(kind, body) ==
    [kind     |-> kind,
     pc       |-> "recv",
     body     |-> body,
     launched |-> <<>>,
     running  |-> 0,
     exits    |-> <<>>,
     waited   |-> <<>>,          \* the seconds spent in each time.Sleep
     resp     |-> NoResp]

Last(seq) == seq[Len(seq)]
Range(seq) == {seq[i] : i \in 1..Len(seq)}

\* exec.Command(argv...) followed by Run, Output or CombinedOutput: the process is
\* started and the handler blocks at pc until it has exited
Launch(r, argv, pc) ==
    [r EXCEPT !.launched = Append(@, argv), !.running = @ + 1, !.pc = pc]

\* the handler writes its response and returns
Respond(r, resp) == [r EXCEPT !.resp = resp, !.pc = "done"]

\* w.WriteHeader(code) and {"error": text}
ErrorResp(code, parts) ==
    [NoResp EXCEPT !.code = code, !.payload = "error", !.error = parts]

\* {"status": ..., "message": ...}, status 200
StatusResp(status, message) ==
    [NoResp EXCEPT !.code = 200, !.payload = "status",
                   !.status = status, !.message = message]

Unavailable == ErrorResp(503, <<"nmcli is not installed or not available">>)

\* what the environment can make an external process return: err is the text
\* of the error of Run/Output/CombinedOutput ("" for nil), stderr the diagnostic
\* the tool printed, stdout its standard output
ToolFailures ==
    { [err |-> "exit status 1", stderr |-> "Error: not authorized", stdout |-> <<>>],
      [err |-> "exec: executable file not found in $PATH", stderr |-> "", stdout |-> <<>>] }

ArgvRescan  == <<"nmcli", "device", "wifi", "rescan">>
ArgvList    == <<"nmcli", "-t", "-f", "SSID,SIGNAL,SECURITY", "dev", "wifi", "list">>
ArgvCurrent == <<"nmcli", "-t", "-f", "ACTIVE,SSID,SIGNAL,SECURITY", "dev", "wifi">>
ArgvPsAux   == <<"ps", "aux">>
ArgvPsEf    == <<"ps", "-ef">>
ArgvSystemctl == <<"systemctl", "reboot">>
ArgvReboot    == <<"reboot">>
ArgvShutdown  == <<"shutdown", "-r", "now">>

ScanTexts ==
    { <<>>,
      Join(<< Join(<<sMyNet, <<"6","7">>, TokWPA2>>, Colon),
              Join(<<Dashes, <<"8","0">>, <<>>>>, Colon),
              <<>>,
              Join(<<sHome, <<"4","5">>, <<>>>>, Colon),
              <<>> >>, <<"\n">>) }

CurrentTexts ==
    { Join(<< Join(<<sNo, sHome, <<"4","5">>, <<"W","P","A","1">>>>, Colon),
              <<>> >>, <<"\n">>),
      Join(<< Join(<<sNo, sHome, <<"4","5">>, <<"W","P","A","1">>>>, Colon),
              Join(<<sYes, sMyNet, <<"6","7">>, TokWPA2 \o <<" ">> \o TokWPA3>>, Colon),
              <<>> >>, <<"\n">>) }

StdoutOf(argv) ==
    IF argv = ArgvList THEN ScanTexts
    ELSE IF argv = ArgvCurrent THEN CurrentTexts
    ELSE IF argv = ArgvPsAux THEN {PsAuxText}
    ELSE IF argv = ArgvPsEf THEN {PsEfText}
    ELSE {<<>>}

ToolResults(argv) ==
    ToolFailures \cup {[err |-> "", stderr |-> "", stdout |-> t] : t \in StdoutOf(argv)}

\* cmd.CombinedOutput(): what the tool printed on stdout and stderr; the tools
\* print their diagnostics on stderr
CombinedOutput(res) == res.stderr

(***************************************************************************)
(* getWiFiNetworksHandler and scanWiFiNetworks                             *)
(***************************************************************************)
\* scanWiFiNetworks listing at once after the rescan, without the sleep
ScanStep_NoWait(r) ==
    CASE r.pc = "recv" ->
            IF ~nmcliAvailable THEN Respond(r, Unavailable)
            ELSE Launch(r, ArgvRescan, "rescan")
      [] r.pc = "rescan" ->
            IF Last(r.exits).err # ""
            THEN Respond(r, ErrorResp(500,
                     <<"failed to rescan WiFi networks: ", Last(r.exits).err>>))
            ELSE Launch(r, ArgvList, "list")
      [] r.pc = "list" ->
            IF Last(r.exits).err # ""
            THEN Respond(r, ErrorResp(500,
                     <<"failed to scan WiFi networks with nmcli: ", Last(r.exits).err>>))
            ELSE Respond(r, [NoResp EXCEPT !.code = 200, !.payload = "networks",
                                !.networks = parseNmcliOutput(Last(r.exits).stdout)])

ScanStep(r) ==
    CASE r.pc = "recv" ->
            IF ~nmcliAvailable THEN Respond(r, Unavailable)
            ELSE Launch(r, ArgvRescan, "rescan")
      [] r.pc = "rescan" ->
            IF Last(r.exits).err # ""
            THEN Respond(r, ErrorResp(500,
                     <<"failed to rescan WiFi networks: ", Last(r.exits).err>>))
            ELSE [r EXCEPT !.pc = "sleep"]
      [] r.pc = "sleep" -> Launch([r EXCEPT !.waited = Append(@, 5)], ArgvList, "list")
      [] r.pc = "list" ->
            IF Last(r.exits).err # ""
            THEN Respond(r, ErrorResp(500,
                     <<"failed to scan WiFi networks with nmcli: ", Last(r.exits).err>>))
            ELSE Respond(r, [NoResp EXCEPT !.code = 200, !.payload = "networks",
                                !.networks = parseNmcliOutput(Last(r.exits).stdout)])

(***************************************************************************)
(* getCurrentWiFiHandler and getCurrentWiFi                                *)
(***************************************************************************)
CurrentStep(r) ==
    CASE r.pc = "recv" ->
            IF ~nmcliAvailable THEN Respond(r, Unavailable)
            ELSE Launch(r, ArgvCurrent, "current")
      [] r.pc = "current" ->
            \* getCurrentWiFi returns a nil error on both paths
            Respond(r, [NoResp EXCEPT !.code = 200, !.payload = "current",
                           !.current = getCurrentWiFi(Last(r.exits).err = "",
                                                      Last(r.exits).stdout)])

(***************************************************************************)
(* connectWiFiHandler and connectToWiFi                                    *)
(***************************************************************************)
\* a bug: the default case falling into the WPA case
connectCommand_NoDefault(ssid, password, security) ==
    IF security = "Open" THEN <<"nmcli", "dev", "wifi", "connect", ssid>>
    ELSE <<"nmcli", "dev", "wifi", "connect", ssid, "password", password>>

\* the switch of connectToWiFi: the argument vector, or <<>> for the default case
connectCommand(ssid, password, security) ==
    CASE security = "Open" -> <<"nmcli", "dev", "wifi", "connect", ssid>>
      [] security = "WEP" -> <<"nmcli", "dev", "wifi", "connect", ssid, "password", password>>
      [] security \in {"WPA", "WPA2", "WPA3"} ->
            <<"nmcli", "dev", "wifi", "connect", ssid, "password", password>>
      [] OTHER -> <<>>

\* the error connectToWiFi returns when the command fails
connectError(ssid, res) ==
    <<"failed to connect to WiFi network ", ssid, ": ", res.err,
      " (output: ", CombinedOutput(res), ")">>

\* a bug: the body decoded before the availability check
ConnectStep_DecodeFirst(r) ==
    CASE r.pc = "recv" ->
            IF ~r.body.valid THEN Respond(r, ErrorResp(400, <<"Invalid JSON">>))
            ELSE IF ~nmcliAvailable THEN Respond(r, Unavailable)
            ELSE LET argv == connectCommand(r.body.ssid, r.body.password, r.body.security)
                 IN  IF argv = <<>>
                     THEN Respond(r, ErrorResp(500,
                              <<"unsupported security type: ", r.body.security>>))
                     ELSE Launch(r, argv, "connect")
      [] r.pc = "connect" ->
            IF Last(r.exits).err # ""
            THEN Respond(r, ErrorResp(500, connectError(r.body.ssid, Last(r.exits))))
            ELSE Respond(r, StatusResp("success", <<>>))

\* a bug: the decode error ignored, connectToWiFi called with what was decoded
ConnectStep_IgnoreDecodeError(r) ==
    CASE r.pc = "recv" ->
            IF ~nmcliAvailable THEN Respond(r, Unavailable)
            ELSE LET argv == connectCommand(r.body.ssid, r.body.password, r.body.security)
                 IN  IF argv = <<>>
                     THEN Respond(r, ErrorResp(500,
                              <<"unsupported security type: ", r.body.security>>))
                     ELSE Launch(r, argv, "connect")
      [] r.pc = "connect" ->
            IF Last(r.exits).err # ""
            THEN Respond(r, ErrorResp(500, connectError(r.body.ssid, Last(r.exits))))
            ELSE Respond(r, StatusResp("success", <<>>))

ConnectStep(r) ==
    CASE r.pc = "recv" ->
            IF ~nmcliAvailable THEN Respond(r, Unavailable)
            ELSE IF ~r.body.valid THEN Respond(r, ErrorResp(400, <<"Invalid JSON">>))
            ELSE LET argv == connectCommand(r.body.ssid, r.body.password, r.body.security)
                 IN  IF argv = <<>>
                     THEN Respond(r, ErrorResp(500,
                              <<"unsupported security type: ", r.body.security>>))
                     ELSE Launch(r, argv, "connect")
      [] r.pc = "connect" ->
            IF Last(r.exits).err # ""
            THEN Respond(r, ErrorResp(500, connectError(r.body.ssid, Last(r.exits))))
            ELSE Respond(r, StatusResp("success", <<>>))

(***************************************************************************)
(* getProcessesHandler and getProcesses                                    *)
(***************************************************************************)
\* getProcesses giving up when ps aux fails
ProcessesStep_NoFallback(r) ==
    CASE r.pc = "recv" -> Launch(r, ArgvPsAux, "psaux")
      [] r.pc = "psaux" ->
            IF Last(r.exits).err # ""
            THEN Respond(r, ErrorResp(500,
                     <<"failed to get process list: ", Last(r.exits).err>>))
            ELSE Respond(r, [NoResp EXCEPT !.code = 200, !.payload = "processes",
                                !.processes = parsePsAuxOutput(Last(r.exits).stdout)])

ProcessesStep(r) ==
    CASE r.pc = "recv" -> Launch(r, ArgvPsAux, "psaux")
      [] r.pc = "psaux" ->
            IF Last(r.exits).err # ""
            THEN Launch(r, ArgvPsEf, "psef")
            ELSE Respond(r, [NoResp EXCEPT !.code = 200, !.payload = "processes",
                                !.processes = parsePsAuxOutput(Last(r.exits).stdout)])
      [] r.pc = "psef" ->
            IF Last(r.exits).err # ""
            THEN Respond(r, ErrorResp(500,
                     <<"failed to get process list: ", Last(r.exits).err>>))
            ELSE Respond(r, [NoResp EXCEPT !.code = 200, !.payload = "processes",
                                !.processes = parsePsEfOutput(Last(r.exits).stdout)])

(***************************************************************************)
(* rebootHandler                                                           *)
(***************************************************************************)
RebootSuccess == StatusResp("success", <<"System reboot initiated">>)

\* a bug: the fallbacks tried in the wrong order
RebootStep_RebootFirst(r) ==
    CASE r.pc = "recv" ->
            IF goos = "windows" \/ goos = "darwin"
            THEN Respond(r, StatusResp("logged", <<"Reboot action logged for ", goos, " development machine">>))
            ELSE Launch(r, ArgvReboot, "systemctl")
      [] r.pc = "systemctl" ->
            IF Last(r.exits).err # "" THEN Launch(r, ArgvSystemctl, "reboot")
            ELSE Respond(r, RebootSuccess)
      [] r.pc = "reboot" ->
            IF Last(r.exits).err # "" THEN Launch(r, ArgvShutdown, "shutdown")
            ELSE Respond(r, RebootSuccess)
      [] r.pc = "shutdown" ->
            IF Last(r.exits).err # ""
            THEN Respond(r, ErrorResp(500,
                     <<"Failed to initiate reboot: ", Last(r.exits).err>>))
            ELSE Respond(r, RebootSuccess)

\* a bug: cmd.Start() in place of cmd.Run() for the first strategy, so that the
\* fallback is launched while systemctl is still running
RebootStep_NoWait(r) ==
    CASE r.pc = "recv" ->
            IF goos = "windows" \/ goos = "darwin"
            THEN Respond(r, StatusResp("logged", <<"Reboot action logged for ", goos, " development machine">>))
            ELSE Launch(Launch(r, ArgvSystemctl, "systemctl"), ArgvReboot, "reboot")
      [] r.pc = "systemctl" ->
            IF Last(r.exits).err # "" THEN Launch(r, ArgvReboot, "reboot")
            ELSE Respond(r, RebootSuccess)
      [] r.pc = "reboot" ->
            IF Last(r.exits).err # "" THEN Launch(r, ArgvShutdown, "shutdown")
            ELSE Respond(r, RebootSuccess)
      [] r.pc = "shutdown" ->
            IF Last(r.exits).err # ""
            THEN Respond(r, ErrorResp(500,
                     <<"Failed to initiate reboot: ", Last(r.exits).err>>))
            ELSE Respond(r, RebootSuccess)

RebootStep(r) ==
    CASE r.pc = "recv" ->
            IF goos = "windows" \/ goos = "darwin"
            THEN Respond(r, StatusResp("logged", <<"Reboot action logged for ", goos, " development machine">>))
            ELSE Launch(r, ArgvSystemctl, "systemctl")
      [] r.pc = "systemctl" ->
            IF Last(r.exits).err # "" THEN Launch(r, ArgvReboot, "reboot")
            ELSE Respond(r, RebootSuccess)
      [] r.pc = "reboot" ->
            IF Last(r.exits).err # "" THEN Launch(r, ArgvShutdown, "shutdown")
            ELSE Respond(r, RebootSuccess)
      [] r.pc = "shutdown" ->
            IF Last(r.exits).err # ""
            THEN Respond(r, ErrorResp(500,
                     <<"Failed to initiate reboot: ", Last(r.exits).err>>))
            ELSE Respond(r, RebootSuccess)

(***************************************************************************)
(* Spec: the server                                                        *)
(***************************************************************************)
GOOS == {"linux", "darwin", "windows"}

ToolKinds == {"scan", "current", "connect", "processes", "reboot"}

\* the bodies a client posts to /api/wifi/connect: one that does not decode, and
\* decoded ones (a member missing from the JSON decodes to "")
ConnectBodies ==
    {NoBody} \cup
    { [valid |-> TRUE, ssid |-> "MyNet", password |-> "secret", security |-> sec] :
        sec \in {"Open", "WEP", "WPA", "WPA2", "WPA3", "Unknown", "wpa2", ""} }

BodiesOf(kind) == IF kind = "connect" THEN ConnectBodies ELSE {NoBody}

\* the process has been started on some operating system and NewApp has not run
Init ==
    /\ normPc = "off"
    /\ raw = <<>>
    /\ nparts = 0
    /\ normalized = ""
    /\ renormalized = ""
    /\ wifiPc = "off"
    /\ text = <<>>
    /\ nfrags = 0
    /\ cmdOk = TRUE
    /\ networks = NoNetworks
    /\ currentWiFi = ZeroCurrentWiFi
    /\ started = FALSE
    /\ nmcliAvailable = FALSE
    /\ startTime = 0
    /\ now = 0
    /\ goos \in GOOS
    /\ reqs = EmptyBag
    /\ psPc = "off"
    /\ psRows = <<>>
    /\ psText = <<>>
    /\ psAux = NoProcesses
    /\ psEf = NoProcesses
    /\ ifPc = "off"
    /\ ifaces = <<>>
    /\ ifResult = NoInterfaces
    /\ frontPc = "off"
    /\ signal = Undefined
    /\ strength = 0
    /\ ifName = <<>>
    /\ ifType = ""
    /\ loadingHidden = TRUE
    /\ wifiList = ""
    /\ pageCurrentWiFi = "null"
    /\ scanCalls = <<>>
    /\ shPc = "off"
    /\ fs = NoFiles
    /\ shVar = NoShVars
    /\ service = "inactive"
    /\ errorMsg = ""
    /\ exitStatus = -1

Replace(r, r2) == (reqs (-) SetToBag({r})) (+) SetToBag({r2})

\* a handler runs when it is neither waiting for a process nor finished
Runnable(r, kind) == r.kind = kind /\ r.pc # "done" /\ r.running = 0

\* NewApp: checkNmcliAvailable runs "which nmcli" once, before the server listens
NewApp ==
    /\ ~started
    /\ \E avail \in BOOLEAN : nmcliAvailable' = avail
    /\ startTime' = now
    /\ started' = TRUE
    /\ UNCHANGED <<now, goos, reqs, normVars, wifiVars, pureVars>>

\* the router hands a request to its handler, in a goroutine of its own
Accept ==
    /\ started
    /\ BagCardinality(reqs) < MaxInFlight
    /\ \E kind \in ToolKinds : \E body \in BodiesOf(kind) :
           reqs' = reqs (+) SetToBag({NewRequest(kind, body)})
    /\ UNCHANGED <<started, nmcliAvailable, startTime, now, goos, normVars, wifiVars, pureVars>>

getWiFiNetworksHandler ==
    /\ \E r \in BagToSet(reqs) : Runnable(r, "scan") /\ reqs' = Replace(r, ScanStep(r))
    /\ UNCHANGED <<started, nmcliAvailable, startTime, now, goos, normVars, wifiVars, pureVars>>

getCurrentWiFiHandler ==
    /\ \E r \in BagToSet(reqs) : Runnable(r, "current") /\ reqs' = Replace(r, CurrentStep(r))
    /\ UNCHANGED <<started, nmcliAvailable, startTime, now, goos, normVars, wifiVars, pureVars>>

connectWiFiHandler ==
    /\ \E r \in BagToSet(reqs) : Runnable(r, "connect") /\ reqs' = Replace(r, ConnectStep(r))
    /\ UNCHANGED <<started, nmcliAvailable, startTime, now, goos, normVars, wifiVars, pureVars>>

getProcessesHandler ==
    /\ \E r \in BagToSet(reqs) : Runnable(r, "processes") /\ reqs' = Replace(r, ProcessesStep(r))
    /\ UNCHANGED <<started, nmcliAvailable, startTime, now, goos, normVars, wifiVars, pureVars>>

rebootHandler ==
    /\ \E r \in BagToSet(reqs) : Runnable(r, "reboot") /\ reqs' = Replace(r, RebootStep(r))
    /\ UNCHANGED <<started, nmcliAvailable, startTime, now, goos, normVars, wifiVars, pureVars>>

\* an external process exits: the call that waits for it returns
ProcessExit ==
    /\ \E r \in BagToSet(reqs) :
           /\ r.running > 0
           /\ \E res \in ToolResults(Last(r.launched)) :
                  reqs' = Replace(r, [r EXCEPT !.running = @ - 1,
                                               !.exits = Append(@, res)])
    /\ UNCHANGED <<started, nmcliAvailable, startTime, now, goos, normVars, wifiVars, pureVars>>

\* the response has been sent; the request is over
Close ==
    /\ \E r \in BagToSet(reqs) : r.pc = "done" /\ reqs' = reqs (-) SetToBag({r})
    /\ UNCHANGED <<started, nmcliAvailable, startTime, now, goos, normVars, wifiVars, pureVars>>

Next ==
    \/ NewApp
    \/ Accept
    \/ getWiFiNetworksHandler
    \/ getCurrentWiFiHandler
    \/ connectWiFiHandler
    \/ getProcessesHandler
    \/ rebootHandler
    \/ ProcessExit
    \/ Close

Spec == Init /\ [][Next]_vars

(***************************************************************************)
(* SpecStatus: the server with a clock, serving getSystemHealthHandler,    *)
(* getNmcliStatusHandler and getCurrentWiFiHandler                         *)
(***************************************************************************)
\* formatUptime, of a duration in seconds
formatUptime(totalSeconds) ==
    LET days    == totalSeconds \div 86400
        hours   == (totalSeconds % 86400) \div 3600
        minutes == (totalSeconds % 3600) \div 60
    IN  IF days > 0
        THEN Itoa(days) \o <<"d", " ">> \o Itoa(hours) \o <<"h", " ">> \o Itoa(minutes) \o <<"m">>
        ELSE IF hours > 0
        THEN Itoa(hours) \o <<"h", " ">> \o Itoa(minutes) \o <<"m">>
        ELSE Itoa(minutes) \o <<"m">>

\* what net.DialTimeout("tcp", "8.8.8.8:53", 3s) can return
DialResults ==
    { [err |-> "", stderr |-> "", stdout |-> <<>>],
      [err |-> "dial tcp 8.8.8.8:53: i/o timeout", stderr |-> "", stdout |-> <<>>] }

\* checkNetworkConnectivity, given what the dial returned
checkNetworkConnectivity(res) == res.err = ""

\* the handler reporting "online" whatever the check returned
HealthStep_AlwaysOnline(r, res) ==
    CASE r.pc = "recv" -> [r EXCEPT !.pc = "dial"]
      [] r.pc = "dial" ->
            LET networkCheck == checkNetworkConnectivity(res)
            IN  Respond([r EXCEPT !.exits = Append(@, res)],
                    [NoResp EXCEPT !.code = 200, !.payload = "health",
                        !.health = [Status       |-> "online",
                                    Uptime       |-> formatUptime(now - startTime),
                                    NetworkCheck |-> networkCheck,
                                    LastCheck    |-> now]])

\* getSystemHealthHandler: it blocks in the dial, which returns res
HealthStep(r, res) ==
    CASE r.pc = "recv" -> [r EXCEPT !.pc = "dial"]
      [] r.pc = "dial" ->
            LET networkCheck == checkNetworkConnectivity(res)
            IN  Respond([r EXCEPT !.exits = Append(@, res)],
                    [NoResp EXCEPT !.code = 200, !.payload = "health",
                        !.health = [Status       |-> IF ~networkCheck THEN "degraded" ELSE "online",
                                    Uptime       |-> formatUptime(now - startTime),
                                    NetworkCheck |-> networkCheck,
                                    LastCheck    |-> now]])

\* getNmcliStatusHandler
StatusStep(r) ==
    Respond(r, [NoResp EXCEPT !.code = 200, !.payload = "available",
                   !.available = nmcliAvailable])

\* instants of the clock, in seconds: the start, then a minute, an hour and a
\* day later
ClockTimes == {0, 61, 3661, 90061}

\* the requests served: health, nmcli status, and one that runs nmcli
StatusKinds == {"health", "status", "current"}

StatusInit ==
    /\ normPc = "off"
    /\ raw = <<>>
    /\ nparts = 0
    /\ normalized = ""
    /\ renormalized = ""
    /\ wifiPc = "off"
    /\ text = <<>>
    /\ nfrags = 0
    /\ cmdOk = TRUE
    /\ networks = NoNetworks
    /\ currentWiFi = ZeroCurrentWiFi
    /\ started = FALSE
    /\ nmcliAvailable = FALSE
    /\ startTime = 0
    /\ now = 0
    /\ goos = "linux"
    /\ reqs = EmptyBag
    /\ psPc = "off"
    /\ psRows = <<>>
    /\ psText = <<>>
    /\ psAux = NoProcesses
    /\ psEf = NoProcesses
    /\ ifPc = "off"
    /\ ifaces = <<>>
    /\ ifResult = NoInterfaces
    /\ frontPc = "off"
    /\ signal = Undefined
    /\ strength = 0
    /\ ifName = <<>>
    /\ ifType = ""
    /\ loadingHidden = TRUE
    /\ wifiList = ""
    /\ pageCurrentWiFi = "null"
    /\ scanCalls = <<>>
    /\ shPc = "off"
    /\ fs = NoFiles
    /\ shVar = NoShVars
    /\ service = "inactive"
    /\ errorMsg = ""
    /\ exitStatus = -1

\* time passes
Tick ==
    /\ \E t \in ClockTimes : t > now /\ now' = t
    /\ UNCHANGED <<started, nmcliAvailable, startTime, goos, reqs, normVars, wifiVars, pureVars>>

AcceptStatus ==
    /\ started
    /\ BagCardinality(reqs) < MaxInFlight
    /\ \E kind \in StatusKinds : reqs' = reqs (+) SetToBag({NewRequest(kind, NoBody)})
    /\ UNCHANGED <<started, nmcliAvailable, startTime, now, goos, normVars, wifiVars, pureVars>>

getSystemHealthHandler ==
    /\ \E r \in BagToSet(reqs) :
           /\ Runnable(r, "health")
           /\ \E res \in DialResults : reqs' = Replace(r, HealthStep(r, res))
    /\ UNCHANGED <<started, nmcliAvailable, startTime, now, goos, normVars, wifiVars, pureVars>>

\* a handler that runs "which nmcli" again and stores what it finds
getNmcliStatusHandler_Recheck ==
    /\ \E r \in BagToSet(reqs) : Runnable(r, "status") /\ reqs' = Replace(r, StatusStep(r))
    /\ \E avail \in BOOLEAN : nmcliAvailable' = avail
    /\ UNCHANGED <<started, startTime, now, goos, normVars, wifiVars, pureVars>>

getNmcliStatusHandler ==
    /\ \E r \in BagToSet(reqs) : Runnable(r, "status") /\ reqs' = Replace(r, StatusStep(r))
    /\ UNCHANGED <<started, nmcliAvailable, startTime, now, goos, normVars, wifiVars, pureVars>>

StatusNext ==
    \/ NewApp
    \/ Tick
    \/ AcceptStatus
    \/ getSystemHealthHandler
    \/ getNmcliStatusHandler
    \/ getCurrentWiFiHandler
    \/ ProcessExit
    \/ Close

SpecStatus == StatusInit /\ [][StatusNext]_vars

(***************************************************************************)
(* C4 .. C10                                                               *)
(***************************************************************************)
Requests == BagToSet(reqs)

PasswordSecurities == {"WEP", "WPA", "WPA2", "WPA3"}

C5_ExactlyOne ==
    \A r \in Requests :
        r.pc = "done" /\ r.launched # <<>> => Len(r.launched) = 1

MaxLaunches(kind) ==
    CASE kind = "scan" -> 2
      [] kind = "current" -> 1
      [] kind = "connect" -> 1
      [] kind = "processes" -> 2
      [] kind = "reboot" -> 3

\* C5 as amended: a request launches its external processes one at a time, each
\* awaited before the next is launched, and writes its response only after every
\* process it launched has completed; it launches at most 2 (scan, process
\* list), 1 (current, connect) or 3 (reboot) of them, and a successful scan
\* launches exactly 2.
C5_OneAtATime ==
    \A r \in Requests :
        /\ r.running \in {0, 1}
        /\ Len(r.launched) = Len(r.exits) + r.running
        /\ Len(r.launched) <= MaxLaunches(r.kind)
        /\ r.resp.code # 0 => r.running = 0 /\ r.pc = "done"
        /\ r.pc = "done" /\ r.kind = "scan" /\ r.resp.code = 200 => Len(r.launched) = 2

\* a scan has answered 200 after its rescan and its list command both completed
C5_Witness ==
    \E r \in Requests :
        /\ r.kind = "scan" /\ r.pc = "done" /\ r.resp.code = 200
        /\ r.launched = <<ArgvRescan, ArgvList>>
        /\ Len(r.exits) = 2 /\ r.running = 0

C7_BadBody ==
    \A r \in Requests :
        nmcliAvailable /\ r.kind = "connect" /\ ~r.body.valid =>
            /\ r.launched = <<>>
            /\ r.running = 0
            /\ r.pc = "done" => r.resp.code = 400

C7_Witness ==
    /\ nmcliAvailable
    /\ \E r \in Requests :
           /\ r.kind = "connect" /\ ~r.body.valid /\ r.pc = "done"
           /\ r.resp.code = 400 /\ r.launched = <<>>

\* C8: with the tool available, a failing nmcli invocation behind
\* GET /api/wifi/current is answered with status 500.
C8_CurrentFailure500 ==
    \A r \in Requests :
        /\ nmcliAvailable /\ r.kind = "current" /\ r.pc = "done"
        /\ r.exits # <<>> /\ Last(r.exits).err # ""
        => r.resp.code = 500

\* C9: for every failing tool invocation (rescan, list, connect, ps) the error
\* returned to the caller contains the output text the tool produced.
C9_ErrorHasOutput ==
    \A r \in Requests :
        /\ r.kind \in {"scan", "connect", "processes"} /\ r.pc = "done"
        /\ r.exits # <<>> /\ Last(r.exits).err # ""
        /\ CombinedOutput(Last(r.exits)) # ""
        => /\ r.resp.payload = "error"
           /\ CombinedOutput(Last(r.exits)) \in Range(r.resp.error)

RebootChain == <<ArgvSystemctl, ArgvReboot, ArgvShutdown>>

\* C10: on Linux the reboot handler tries systemctl reboot, reboot, shutdown -r
\* now in that order, a later one only after every earlier one failed and none
\* after a success; it answers 500 exactly when all three failed, with the last
\* one's failure, and otherwise status 'success'.
C10_RebootChain ==
    \A r \in Requests :
        r.kind = "reboot" /\ goos = "linux" =>
            /\ Len(r.launched) <= 3
            /\ r.launched = SubSeq(RebootChain, 1, Len(r.launched))
            /\ \A i \in 1..Len(r.launched) : \A j \in 1..(i - 1) :
                   j <= Len(r.exits) /\ r.exits[j].err # ""
            /\ r.pc = "done" =>
                   /\ r.launched # <<>>
                   /\ Len(r.exits) = Len(r.launched)
                   /\ r.resp.code = 500 <=>
                          (Len(r.exits) = 3 /\ \A i \in 1..3 : r.exits[i].err # "")
                   /\ r.resp.code = 500 =>
                          r.resp.error = <<"Failed to initiate reboot: ", r.exits[3].err>>
                   /\ r.resp.code # 500 =>
                          /\ r.resp.code = 200
                          /\ r.resp.status = "success"
                          /\ Last(r.exits).err = ""

\* all three strategies failed, the first and the last with different errors
C10_Witness ==
    /\ goos = "linux"
    /\ \E r \in Requests :
           /\ r.kind = "reboot" /\ r.pc = "done" /\ r.resp.code = 500
           /\ r.launched = RebootChain
           /\ r.exits[1].err # r.exits[3].err

(***************************************************************************)
(* SpecScanUi: scanWiFiNetworks of static/app.js.  The page runs one       *)
(* continuation at a time; a call of scanWiFiNetworks runs up to its next  *)
(* await and resumes when the awaited promise settles.  Each call owns its *)
(* two fetches; #wifiLoading, #wifiList and this.currentWiFi are shared.   *)
(***************************************************************************)
\* how many times the scan button is clicked
MaxScans == 2

\* how a fetch settles: a response with ok, one without, or a rejection
FetchOutcomes == {"ok", "notok", "rejected"}
\* what response.json() gives for /api/wifi/current, or that it rejects
CurrentBodies == {"connected", "disconnected", "invalid"}
\* what response.json() gives for /api/wifi/scan, or that it rejects
ScanBodies == {"null", "empty", "list", "invalid"}

\* a call of scanWiFiNetworks waiting on Promise.all of its two fetches
NewScanCall == [pc |-> "fetch", current |-> "pending", scan |-> "pending"]

\* Promise.all rejects once one promise rejects, resolves once all resolved
PromiseAllRejected(c) == c.current = "rejected" \/ c.scan = "rejected"
PromiseAllResolved(c) ==
    c.current \in {"ok", "notok"} /\ c.scan \in {"ok", "notok"}

\* renderWiFiNetworks: reading networks.length of null throws
renderWiFiNetworks(nets) ==
    IF nets = "null" THEN [threw |-> TRUE, html |-> ""]
    ELSE IF nets = "empty" THEN [threw |-> FALSE, html |-> "No WiFi networks found"]
    ELSE [threw |-> FALSE, html |-> "networks"]

\* the catch block followed by the finally block, ending call i
CatchFinally(i) ==
    /\ wifiList' = "Failed to scan WiFi networks"
    /\ loadingHidden' = TRUE
    /\ scanCalls' = [scanCalls EXCEPT ![i].pc = "done"]

ScanUiInit ==
    /\ normPc = "off"
    /\ raw = <<>>
    /\ nparts = 0
    /\ normalized = ""
    /\ renormalized = ""
    /\ wifiPc = "off"
    /\ text = <<>>
    /\ nfrags = 0
    /\ cmdOk = TRUE
    /\ networks = NoNetworks
    /\ currentWiFi = ZeroCurrentWiFi
    /\ started = FALSE
    /\ nmcliAvailable = FALSE
    /\ startTime = 0
    /\ now = 0
    /\ goos = "linux"
    /\ reqs = EmptyBag
    /\ psPc = "off"
    /\ psRows = <<>>
    /\ psText = <<>>
    /\ psAux = NoProcesses
    /\ psEf = NoProcesses
    /\ ifPc = "off"
    /\ ifaces = <<>>
    /\ ifResult = NoInterfaces
    /\ frontPc = "off"
    /\ signal = Undefined
    /\ strength = 0
    /\ ifName = <<>>
    /\ ifType = ""
    /\ loadingHidden \in BOOLEAN
    /\ wifiList = ""
    /\ pageCurrentWiFi = "null"
    /\ scanCalls = <<>>
    /\ shPc = "off"
    /\ fs = NoFiles
    /\ shVar = NoShVars
    /\ service = "inactive"
    /\ errorMsg = ""
    /\ exitStatus = -1

\* a click on #scanWiFi: scanWiFiNetworks runs up to await Promise.all
ClickScan ==
    /\ Len(scanCalls) < MaxScans
    /\ loadingHidden' = FALSE
    /\ wifiList' = ""
    /\ scanCalls' = Append(scanCalls, NewScanCall)
    /\ UNCHANGED <<pageCurrentWiFi, normVars, wifiVars, httpVars, psVars, ifaceVars, frontVars, shVars>>

\* the server answers one of the two fetches of a call, or the fetch fails
FetchSettles ==
    \E i \in DOMAIN scanCalls, o \in FetchOutcomes :
        /\ scanCalls[i].pc = "fetch"
        /\ \/ /\ scanCalls[i].current = "pending"
              /\ scanCalls' = [scanCalls EXCEPT ![i].current = o]
           \/ /\ scanCalls[i].scan = "pending"
              /\ scanCalls' = [scanCalls EXCEPT ![i].scan = o]
        /\ UNCHANGED <<loadingHidden, wifiList, pageCurrentWiFi, normVars, wifiVars, httpVars, psVars, ifaceVars, frontVars, shVars>>

\* the call resumes after await Promise.all and checks both responses
AfterFetch ==
    \E i \in DOMAIN scanCalls :
        /\ scanCalls[i].pc = "fetch"
        /\ PromiseAllRejected(scanCalls[i]) \/ PromiseAllResolved(scanCalls[i])
        /\ IF \/ PromiseAllRejected(scanCalls[i])
              \/ scanCalls[i].current # "ok"
              \/ scanCalls[i].scan # "ok"
           THEN CatchFinally(i)
           ELSE /\ scanCalls' = [scanCalls EXCEPT ![i].pc = "currentJson"]
                /\ UNCHANGED <<loadingHidden, wifiList>>
        /\ UNCHANGED <<pageCurrentWiFi, normVars, wifiVars, httpVars, psVars, ifaceVars, frontVars, shVars>>

\* the call resumes after await currentResponse.json()
AfterCurrentJson ==
    \E i \in DOMAIN scanCalls, body \in CurrentBodies :
        /\ scanCalls[i].pc = "currentJson"
        /\ IF body = "invalid"
           THEN /\ CatchFinally(i)
                /\ UNCHANGED pageCurrentWiFi
           ELSE /\ pageCurrentWiFi' = body
                /\ scanCalls' = [scanCalls EXCEPT ![i].pc = "scanJson"]
                /\ UNCHANGED <<loadingHidden, wifiList>>
        /\ UNCHANGED <<normVars, wifiVars, httpVars, psVars, ifaceVars, frontVars, shVars>>

\* the call resumes after await scanResponse.json(), renders and ends
AfterScanJson ==
    \E i \in DOMAIN scanCalls, body \in ScanBodies :
        /\ scanCalls[i].pc = "scanJson"
        /\ IF body = "invalid" \/ renderWiFiNetworks(body).threw
           THEN CatchFinally(i)
           ELSE /\ wifiList' = renderWiFiNetworks(body).html
                /\ loadingHidden' = TRUE
                /\ scanCalls' = [scanCalls EXCEPT ![i].pc = "done"]
        /\ UNCHANGED <<pageCurrentWiFi, normVars, wifiVars, httpVars, psVars, ifaceVars, frontVars, shVars>>

ScanUiNext ==
    \/ ClickScan
    \/ FetchSettles
    \/ AfterFetch
    \/ AfterCurrentJson
    \/ AfterScanJson

SpecScanUi == ScanUiInit /\ [][ScanUiNext]_vars

(***************************************************************************)
(* SpecInstall: the main logic of scripts/install_to_linux.sh, the update  *)
(* path and the fresh installation.  A file is modelled by what it holds:  *)
(* "absent", "empty", "partial", or the version whose release it is.  The  *)
(* script runs without errexit, so a command that fails is followed by the *)
(* next command.                                                           *)
(***************************************************************************)
\* the releases that exist
Versions == {"1.0.8", "1.0.9", "1.1.0"}

\* the files after a completed installation of version v
Installed(v) ==
    [binary |-> v, bak |-> "absent", tmp |-> "absent",
     version |-> v, serviceFile |-> "unit"]

\* mv src dst: fails and changes nothing when src does not exist
Mv(f, src, dst) ==
    IF f[src] = "absent" THEN f
    ELSE [f EXCEPT ![dst] = f[src], ![src] = "absent"]

\* rm -f file
Rm(f, file) == [f EXCEPT ![file] = "absent"]

\* get_installed_version
get_installed_version(f) ==
    IF f.version # "absent" THEN f.version ELSE "not-installed"

MsgNoVersionInfo == "Could not retrieve latest version information. Aborting."
MsgUpdateDownload == "Failed to download the new binary. Restoring from backup."
MsgUpdateEmpty == "Downloaded file is empty. Restoring from backup."
MsgFreshDownload == "Failed to download the binary."
MsgFreshEmpty == "Downloaded file is empty. Aborting."

\* a bug: the backup is left where it is
RestoreFromBackup_Skip(f) == f

\* mv "${BINARY_PATH}.bak-${INSTALLED_VERSION}" "${BINARY_PATH}"
RestoreFromBackup(f) == Mv(f, "bak", "binary")

\* what curl leaves in TMP_FILE: with --fail and an error nothing or a part
\* of the body, otherwise the body, which may be empty
CurlLeaves(ok, latest) == IF ok THEN {"empty", latest} ELSE {"empty", "partial"}

InstallInit ==
    /\ normPc = "off"
    /\ raw = <<>>
    /\ nparts = 0
    /\ normalized = ""
    /\ renormalized = ""
    /\ wifiPc = "off"
    /\ text = <<>>
    /\ nfrags = 0
    /\ cmdOk = TRUE
    /\ networks = NoNetworks
    /\ currentWiFi = ZeroCurrentWiFi
    /\ started = FALSE
    /\ nmcliAvailable = FALSE
    /\ startTime = 0
    /\ now = 0
    /\ goos = "linux"
    /\ reqs = EmptyBag
    /\ psPc = "off"
    /\ psRows = <<>>
    /\ psText = <<>>
    /\ psAux = NoProcesses
    /\ psEf = NoProcesses
    /\ ifPc = "off"
    /\ ifaces = <<>>
    /\ ifResult = NoInterfaces
    /\ frontPc = "off"
    /\ signal = Undefined
    /\ strength = 0
    /\ ifName = <<>>
    /\ ifType = ""
    /\ loadingHidden = TRUE
    /\ wifiList = ""
    /\ pageCurrentWiFi = "null"
    /\ scanCalls = <<>>
    /\ shPc = "start"
    /\ fs \in {NoFiles} \cup {Installed(v) : v \in Versions}
    /\ shVar = NoShVars
    /\ service \in IF fs = NoFiles THEN {"inactive"} ELSE {"active", "inactive"}
    /\ errorMsg = ""
    /\ exitStatus = -1

\* INSTALLED_VERSION, VERSION_INFO and LATEST_VERSION are read
ReadVersions ==
    /\ shPc = "start"
    /\ \E latest \in Versions \cup {""} :
        IF latest = ""
        THEN /\ errorMsg' = MsgNoVersionInfo
             /\ shPc' = "exited"
             /\ exitStatus' = 1
             /\ shVar' = [shVar EXCEPT !.INSTALLED_VERSION = get_installed_version(fs)]
        ELSE /\ shVar' = [shVar EXCEPT !.INSTALLED_VERSION = get_installed_version(fs),
                                       !.LATEST_VERSION = latest]
             /\ shPc' = "check"
             /\ UNCHANGED <<errorMsg, exitStatus>>
    /\ UNCHANGED <<fs, service, normVars, wifiVars, httpVars, psVars, ifaceVars, frontVars, pageVars>>

\* the tests of INSTALLED_VERSION against not-installed and LATEST_VERSION
CheckInstalled ==
    /\ shPc = "check"
    /\ IF shVar.INSTALLED_VERSION = "not-installed"
       THEN shPc' = "fresh" /\ UNCHANGED exitStatus
       ELSE IF shVar.INSTALLED_VERSION = shVar.LATEST_VERSION
       THEN shPc' = "exited" /\ exitStatus' = 0
       ELSE shPc' = "prompt" /\ UNCHANGED exitStatus
    /\ UNCHANGED <<fs, shVar, service, errorMsg, normVars, wifiVars, httpVars, psVars, ifaceVars, frontVars, pageVars>>

\* "Do you want to upgrade?", asked on stdin or /dev/tty when there is one
Prompt ==
    /\ shPc = "prompt"
    /\ \E tty \in {"stdin", "devtty", "none"}, reply \in {"y", "Y", "n", ""} :
        IF tty = "none"
        THEN shPc' = "backup" /\ UNCHANGED <<shVar, exitStatus>>
        ELSE /\ shVar' = [shVar EXCEPT !.REPLY = reply]
             /\ IF reply \in {"y", "Y"}
                THEN shPc' = "backup" /\ UNCHANGED exitStatus
                ELSE shPc' = "exited" /\ exitStatus' = 0
    /\ UNCHANGED <<fs, service, errorMsg, normVars, wifiVars, httpVars, psVars, ifaceVars, frontVars, pageVars>>

\* mv "${BINARY_PATH}" "${BINARY_PATH}.bak-${INSTALLED_VERSION}"
Backup ==
    /\ shPc = "backup"
    /\ fs' = Mv(fs, "binary", "bak")
    /\ shPc' = "download"
    /\ UNCHANGED <<shVar, service, errorMsg, exitStatus, normVars, wifiVars, httpVars, psVars, ifaceVars, frontVars, pageVars>>

\* TMP_FILE=$(mktemp) and curl -sL --fail -o "${TMP_FILE}"
Download ==
    /\ shPc = "download"
    /\ \E ok \in BOOLEAN : \E body \in CurlLeaves(ok, shVar.LATEST_VERSION) :
        /\ fs' = [fs EXCEPT !.tmp = body]
        /\ shPc' = IF ok THEN "curlOk" ELSE "curlFailed"
    /\ UNCHANGED <<shVar, service, errorMsg, exitStatus, normVars, wifiVars, httpVars, psVars, ifaceVars, frontVars, pageVars>>

\* curl failed: restore, start the service, remove TMP_FILE, exit 1
DownloadFailed ==
    /\ shPc = "curlFailed"
    /\ errorMsg' = MsgUpdateDownload
    /\ fs' = Rm(RestoreFromBackup(fs), "tmp")
    /\ service' = "active"
    /\ shPc' = "exited"
    /\ exitStatus' = 1
    /\ UNCHANGED <<shVar, normVars, wifiVars, httpVars, psVars, ifaceVars, frontVars, pageVars>>

\* [ ! -s "${TMP_FILE}" ]: restore, start the service, remove, exit 1
CheckEmpty ==
    /\ shPc = "curlOk"
    /\ IF fs.tmp \in {"absent", "empty"}
       THEN /\ errorMsg' = MsgUpdateEmpty
            /\ fs' = Rm(RestoreFromBackup(fs), "tmp")
            /\ service' = "active"
            /\ shPc' = "exited"
            /\ exitStatus' = 1
       ELSE /\ shPc' = "move"
            /\ UNCHANGED <<fs, service, errorMsg, exitStatus>>
    /\ UNCHANGED <<shVar, normVars, wifiVars, httpVars, psVars, ifaceVars, frontVars, pageVars>>

\* mv "${TMP_FILE}" "${BINARY_PATH}" and chmod +x
MoveNew ==
    /\ shPc = "move"
    /\ fs' = Mv(fs, "tmp", "binary")
    /\ shPc' = "version"
    /\ UNCHANGED <<shVar, service, errorMsg, exitStatus, normVars, wifiVars, httpVars, psVars, ifaceVars, frontVars, pageVars>>

\* echo "${LATEST_VERSION}" > "${VERSION_FILE}"
WriteVersion ==
    /\ shPc = "version"
    /\ fs' = [fs EXCEPT !.version = shVar.LATEST_VERSION]
    /\ shPc' = "restart"
    /\ UNCHANGED <<shVar, service, errorMsg, exitStatus, normVars, wifiVars, httpVars, psVars, ifaceVars, frontVars, pageVars>>

\* systemctl --user restart, the log lines, exit 0
Restart ==
    /\ shPc = "restart"
    /\ service' = "active"
    /\ shPc' = "exited"
    /\ exitStatus' = 0
    /\ UNCHANGED <<fs, shVar, errorMsg, normVars, wifiVars, httpVars, psVars, ifaceVars, frontVars, pageVars>>

\* the fresh installation: the download and its two tests
FreshDownload ==
    /\ shPc = "fresh"
    /\ \E ok \in BOOLEAN : \E body \in CurlLeaves(ok, shVar.LATEST_VERSION) :
        IF ~ok \/ body = "empty"
        THEN /\ errorMsg' = IF ok THEN MsgFreshEmpty ELSE MsgFreshDownload
             /\ fs' = Rm([fs EXCEPT !.tmp = body], "tmp")
             /\ shPc' = "exited"
             /\ exitStatus' = 1
        ELSE /\ fs' = [fs EXCEPT !.tmp = body]
             /\ shPc' = "freshMove"
             /\ UNCHANGED <<errorMsg, exitStatus>>
    /\ UNCHANGED <<shVar, service, normVars, wifiVars, httpVars, psVars, ifaceVars, frontVars, pageVars>>

\* mv "${TMP_FILE}" "${BINARY_PATH}" and chmod +x
FreshMove ==
    /\ shPc = "freshMove"
    /\ fs' = Mv(fs, "tmp", "binary")
    /\ shPc' = "freshService"
    /\ UNCHANGED <<shVar, service, errorMsg, exitStatus, normVars, wifiVars, httpVars, psVars, ifaceVars, frontVars, pageVars>>

\* the service file, the version file, enable and start; the script ends
FreshService ==
    /\ shPc = "freshService"
    /\ fs' = [fs EXCEPT !.serviceFile = "unit", !.version = shVar.LATEST_VERSION]
    /\ service' = "active"
    /\ shPc' = "exited"
    /\ exitStatus' = 0
    /\ UNCHANGED <<shVar, errorMsg, normVars, wifiVars, httpVars, psVars, ifaceVars, frontVars, pageVars>>

InstallNext ==
    \/ ReadVersions
    \/ CheckInstalled
    \/ Prompt
    \/ Backup
    \/ Download
    \/ DownloadFailed
    \/ CheckEmpty
    \/ MoveNew
    \/ WriteVersion
    \/ Restart
    \/ FreshDownload
    \/ FreshMove
    \/ FreshService

SpecInstall == InstallInit /\ [][InstallNext]_vars

(***************************************************************************)
(* C21 .. C30                                                              *)
(***************************************************************************)
\* C21: getInterfaceType classifies "eth9", a Linux Ethernet name, as
\* Ethernet.
C21_Eth9Ethernet ==
    (frontPc = "type" /\ ifName = <<"e","t","h","9">>) => ifType = "Ethernet"

\* the lines of the text with ACTIVE yes and an SSID
ActiveLines == SelectSeq(TextLines, LAMBDA l : HasSsid(l, 4, 2) /\ NmcliFields(l)[1] = sYes)

\* C22: parseNmcliCurrentOutput returns connected = true exactly when some
\* line has at least 4 fields, ACTIVE "yes" and an SSID that is neither empty
\* nor "--"; ssid, signal and security are those of the first such line.
C22_FirstActiveWins ==
    (wifiPc = "parsed" /\ cmdOk) =>
        /\ currentWiFi.Connected <=> ActiveLines # <<>>
        /\ ActiveLines # <<>> =>
               /\ currentWiFi.SSID = NmcliFields(ActiveLines[1])[2]
               /\ currentWiFi.Signal = NmcliFields(ActiveLines[1])[3] \o <<"%">>
               /\ currentWiFi.Security = normalizeSecurityType(NmcliFields(ActiveLines[1])[4])
        /\ ActiveLines = <<>> => currentWiFi = ZeroCurrentWiFi

C22_Witness ==
    /\ wifiPc = "parsed"
    /\ cmdOk
    /\ Len(ActiveLines) = 2
    /\ NmcliFields(ActiveLines[1])[2] # NmcliFields(ActiveLines[2])[2]
    /\ currentWiFi.SSID = sCafe

\* C23: App.nmcliAvailable and App.startTime are written by NewApp only,
\* before any request is accepted; no handler writes them, so every response
\* is built from the values NewApp stored, however the requests interleave.
C23_WrittenAtStartup ==
    [][ /\ started => (started' /\ nmcliAvailable' = nmcliAvailable /\ startTime' = startTime)
        /\ ~started => reqs = EmptyBag
        /\ \A r \in BagToSet(reqs') :
               r.pc = "done" =>
                   /\ r.kind = "status" => r.resp.available = nmcliAvailable'
                   /\ r.kind = "current" => (r.resp.code = 503 <=> ~nmcliAvailable')
                   /\ r.kind = "health" =>
                          r.resp.health.Uptime =
                              formatUptime(r.resp.health.LastCheck - startTime')
      ]_vars

C23_Witness ==
    /\ started
    /\ startTime > 0
    /\ \E r \in BagToSet(reqs) :
           r.kind = "status" /\ r.pc = "done" /\ r.resp.available = nmcliAvailable
    /\ \E r \in BagToSet(reqs) :
           r.kind = "health" /\ r.pc = "done" /\ r.resp.health.LastCheck > startTime

\* C28: the health endpoint reports "online" exactly when the connectivity
\* check succeeded and "degraded" otherwise; network_check is the result of
\* that check; the response never carries an error status.
C28_HealthStatus ==
    \A r \in BagToSet(reqs) :
        (r.kind = "health" /\ r.pc = "done") =>
            /\ r.resp.code = 200
            /\ r.resp.payload = "health"
            /\ r.resp.health.NetworkCheck <=> Last(r.exits).err = ""
            /\ r.resp.health.Status = "online" <=> Last(r.exits).err = ""
            /\ r.resp.health.Status = "degraded" <=> Last(r.exits).err # ""

C28_Witness ==
    \E r \in BagToSet(reqs) :
        /\ r.kind = "health"
        /\ r.pc = "done"
        /\ Last(r.exits).err # ""
        /\ r.resp.health.Status = "degraded"
        /\ ~r.resp.health.NetworkCheck

\* the record p shows the PID, STAT, %CPU and %MEM columns of a line of text
FromAuxRow(p, output) ==
    \E i \in 2..Len(Split(output, "\n")) :
        LET fields == Fields(Split(output, "\n")[i])
        IN  /\ Len(fields) >= 11
            /\ fields[2] = Itoa(p.PID)
            /\ p.Status = fields[8]
            /\ p.CPU = fields[3] \o <<"%">>
            /\ p.Memory = fields[4] \o <<"%">>

\* C24: getProcesses runs ps aux first and ps -ef only when ps aux failed; it
\* fails only when both failed; records from ps -ef carry status "R", cpu
\* "0%" and memory "0%", records from ps aux the STAT column and the %CPU and
\* %MEM columns followed by "%".
C24_ProcessFallback ==
    \A r \in Requests :
        r.kind = "processes" =>
            /\ r.launched \in {<<>>, <<ArgvPsAux>>, <<ArgvPsAux, ArgvPsEf>>}
            /\ Len(r.launched) = 2 => r.exits[1].err # ""
            /\ r.pc = "done" =>
                   /\ r.exits[1].err # "" => Len(r.launched) = 2
                   /\ r.resp.code = IF \A i \in 1..Len(r.exits) : r.exits[i].err # ""
                                    THEN 500 ELSE 200
                   /\ r.exits[1].err = "" =>
                          /\ r.resp.processes.items # <<>>
                          /\ \A j \in 1..Len(r.resp.processes.items) :
                                 FromAuxRow(r.resp.processes.items[j], r.exits[1].stdout)
                   /\ (Len(r.exits) = 2 /\ r.exits[2].err = "") =>
                          /\ r.resp.processes.items # <<>>
                          /\ \A j \in 1..Len(r.resp.processes.items) :
                                 /\ r.resp.processes.items[j].Status = <<"R">>
                                 /\ r.resp.processes.items[j].CPU = <<"0","%">>
                                 /\ r.resp.processes.items[j].Memory = <<"0","%">>

C24_Witness ==
    \E r \in Requests :
        /\ r.kind = "processes"
        /\ r.pc = "done"
        /\ r.launched = <<ArgvPsAux, ArgvPsEf>>
        /\ r.resp.code = 200
        /\ r.resp.processes.items # <<>>
        /\ r.resp.processes.items[1].Status = <<"R">>

\* C25: in every WiFi scan request the list command is launched only after
\* the rescan command succeeded and the fixed wait elapsed; when the rescan
\* fails the request ends with status 500 and neither waits nor lists.
C25_RescanWaitList ==
    \A r \in Requests :
        r.kind = "scan" =>
            /\ r.launched \in {<<>>, <<ArgvRescan>>, <<ArgvRescan, ArgvList>>}
            /\ Len(r.launched) = 2 => (r.exits[1].err = "" /\ r.waited = <<5>>)
            /\ Len(r.launched) < 2 => r.waited = <<>>
            /\ (r.exits # <<>> /\ r.exits[1].err # "") =>
                   /\ r.launched = <<ArgvRescan>>
                   /\ r.pc \in {"rescan", "done"}
                   /\ r.pc = "done" => r.resp.code = 500

C25_Witness ==
    /\ \E r \in Requests :
           /\ r.kind = "scan"
           /\ r.pc = "done"
           /\ r.exits # <<>>
           /\ r.exits[1].err # ""
           /\ r.resp.code = 500
    /\ \E r \in Requests :
           /\ r.kind = "scan"
           /\ r.launched = <<ArgvRescan, ArgvList>>
           /\ r.waited = <<5>>

\* C26: every value the normalizer produces (Open, WEP, WPA, WPA2, WPA3,
\* Unknown) is accepted by connectToWiFi when it comes back unchanged as the
\* security of a connect request: nmcli is run for it.
C26_ScanSecurityAccepted ==
    \A r \in Requests :
        ( /\ r.kind = "connect"
          /\ r.pc = "done"
          /\ r.body.valid
          /\ r.body.security \in SecurityTypes
          /\ r.resp.code # 503 ) =>
            /\ r.launched # <<>>
            /\ r.resp.error = <<>> \/ r.resp.error[1] # "unsupported security type: "

\* C27: when the scan output holds no acceptable line, the list the scan
\* request returns is an empty sequence, not a nil one.
C27_EmptyListNotNil ==
    \A r \in Requests :
        (r.kind = "scan" /\ r.pc = "done" /\ r.resp.code = 200) =>
            ~r.resp.networks.isNil

\* a scan is in flight: a call of scanWiFiNetworks has not ended
ScanInFlight == \E i \in DOMAIN scanCalls : scanCalls[i].pc # "done"

\* C29: whenever a scan started by scanWiFiNetworks is in flight the WiFi
\* loading indicator is visible, also when scans overlap; the indicator is
\* hidden only when no scan is in flight.
C29_LoadingWhileScanning == ScanInFlight => ~loadingHidden

\* the update path ended because the download failed or gave an empty file
UpdateDownloadFailed ==
    shPc = "exited" /\ errorMsg \in {MsgUpdateDownload, MsgUpdateEmpty}

\* the script is on its update path: an installed version other than the
\* latest was found
OnUpdatePath ==
    /\ shPc \notin {"start", "check"}
    /\ shVar.INSTALLED_VERSION \notin {"not-installed", shVar.LATEST_VERSION}
    /\ shVar.LATEST_VERSION # ""

====
